---- MODULE Spec2Model ----
(***************************************************************************)
(* The quota-enforcing forwarding gateway: the key store functions of      *)
(* lib/redis (getKeyData, incrementUsage, isExpired, getSettings,          *)
(* getAPIProfile) and the proxy handler that calls them.                   *)
(*                                                                         *)
(* One step of an invocation is the completion of one awaited operation    *)
(* (a Redis command, the upstream fetch) followed by all the synchronous   *)
(* code up to the next await.  Invocations interleave at their awaits.     *)
(*                                                                         *)
(* Time is a UTC instant counted in ticks, TicksPerDay ticks to a calendar *)
(* day.  A date string "YYYY-MM-DD" is the number of its day; parsing it   *)
(* (new Date(s)) gives that day's UTC midnight.  The process time zone is  *)
(* an offset in ticks: local time = UTC instant + tz.                      *)
(***************************************************************************)
EXTENDS Integers, Sequences, FiniteSets, TLC

VARIABLES redis, now, tz, env, handler, admin

vars == <<redis, now, tz, env, handler, admin>>

---------------------------------------------------------------------------
(* Bounds of the model *)

NumReq == 2        \* concurrent invocations of the proxy handler
MaxLimit == 2      \* largest daily_limit of a key created in Init
TicksPerDay == 2   \* clock ticks per calendar day
LastDay == 2       \* the clock stops at the end of this day
MaxMsgs == 2       \* longest messages list of a request body
MaxChunks == 2     \* chunks an upstream body is streamed in
MaxLegacy == 2     \* largest count field of a record of a previous schema

Reqs == 1..NumReq

---------------------------------------------------------------------------
(* Values *)

NULL == [null |-> TRUE]

SETTINGS_KEY == "__proxy_settings__"
API_PROFILES_KEY == "__api_profiles__"
\* URLs and paths, which the code takes apart, are sequences of characters.
\* "https://code.newcli.com/claude/droid/v1"
DEFAULT_API_BASE ==
    <<"h", "t", "t", "p", "s", ":", "/", "/", "c", "o", "d", "e",
      ".", "n", "e", "w", "c", "l", "i", ".", "c", "o", "m", "/",
      "c", "l", "a", "u", "d", "e", "/", "d", "r", "o", "i", "d",
      "/", "v", "1">>
DEFAULT_MODEL_DISPLAY == "Claude-Opus-4.5-VIP"
DEFAULT_MODEL_ACTUAL == "claude-haiku-4-5-20251001"

Has(rec, f) == f \in DOMAIN rec

\* JavaScript truthiness of an optional string field: present and non-empty.
Truthy(rec, f) == rec # NULL /\ Has(rec, f) /\ rec[f] # ""

\* The same of an optional field holding a URL.
TruthyUrl(rec, f) == rec # NULL /\ Has(rec, f) /\ rec[f] # <<>>

\* The record createKey stores (and the shape getKeyData returns).
KeyRecord(expiry, dailyLimit, date, count) ==
    [ expiry |-> expiry,
      daily_limit |-> dailyLimit,
      usage_today |-> [date |-> date, count |-> count],
      session_timeout_minutes |-> 15 ]

\* The Redis keys of the model: two access keys, the settings record and
\* the profile table, all in the one keyspace the Redis client addresses.
RedisKeys == {"k1", "k2", SETTINGS_KEY, API_PROFILES_KEY}

\* redis.get: the stored value, null for a key that is not set.
RedisGet(key) == IF key \in DOMAIN redis THEN redis[key] ELSE NULL

\* redis.set: the keyspace after a whole-value replace.
RedisSet(key, value) ==
    [k \in DOMAIN redis \cup {key} |-> IF k = key THEN value ELSE redis[k]]

\* A Redis command either completes or throws (network, quota, auth).
RedisOutcomes == {"ok", "error"}

---------------------------------------------------------------------------
(* Dates *)

\* new Date().toISOString().split('T')[0]: the UTC calendar day of t.
Today(t) == t \div TicksPerDay

\* new Date("YYYY-MM-DD"): a date-only string parses as UTC midnight.
ParseDate(day) == day * TicksPerDay

\* d.setHours(0, 0, 0, 0): midnight of t's LOCAL calendar day, as an instant.
SetHoursMidnight(t, zone) == ((t + zone) \div TicksPerDay) * TicksPerDay - zone

\* isExpired(expiryDate) evaluated at instant t in time zone `zone`.
\* A record without expiry gives new Date(undefined), an Invalid Date whose
\* comparison with any date is false.
isExpired(rec, t, zone) ==
    /\ Has(rec, "expiry")
    /\ SetHoursMidnight(t, zone) > SetHoursMidnight(ParseDate(rec.expiry), zone)

---------------------------------------------------------------------------
(* getKeyData (lib/redis) *)

\* The same with the legacy fields looked up in the opposite order.
MigratedRecordMutant(raw, today) ==
    LET dailyLimit ==
            IF Has(raw, "max_ips") THEN raw.max_ips * 50
            ELSE IF Has(raw, "max_activations") THEN raw.max_activations * 50
            ELSE IF Has(raw, "max_concurrent_users")
            THEN raw.max_concurrent_users * 50
            ELSE 100
        base == [ daily_limit |-> dailyLimit,
                  usage_today |-> [date |-> today, count |-> 0],
                  session_timeout_minutes |-> 15 ]
    IN  IF Has(raw, "expiry") THEN base @@ [expiry |-> raw.expiry] ELSE base

\* Lines 32-54: the record a value of any previous schema migrates to.
MigratedRecord(raw, today) ==
    LET dailyLimit ==
            IF Has(raw, "max_concurrent_users") THEN raw.max_concurrent_users * 50
            ELSE IF Has(raw, "max_activations") THEN raw.max_activations * 50
            ELSE IF Has(raw, "max_ips") THEN raw.max_ips * 50
            ELSE 100
        base == [ daily_limit |-> dailyLimit,
                  usage_today |-> [date |-> today, count |-> 0],
                  session_timeout_minutes |-> 15 ]
    IN  \* expiry: data.expiry, undefined (dropped by JSON) when raw has none
        IF Has(raw, "expiry") THEN base @@ [expiry |-> raw.expiry] ELSE base

\* Lines 25-26: the stale-date reset of usage_today.
ResetUsageMutant(raw, today) == raw
ResetUsage(raw, today) ==
    [raw EXCEPT !.usage_today = [date |-> today, count |-> 0]]

\* getKeyData after its redis.get returned `raw` at UTC day `today`:
\* data is what it will return, set says whether it first awaits redis.set
\* of that data (stale-date reset, or migration).
getKeyData(raw, today) ==
    IF raw = NULL THEN [data |-> NULL, set |-> FALSE]
    ELSE IF Has(raw, "daily_limit") /\ Has(raw, "usage_today")
    THEN IF raw.usage_today.date # today
         THEN [data |-> ResetUsage(raw, today), set |-> TRUE]
         ELSE [data |-> raw, set |-> FALSE]
    ELSE [data |-> MigratedRecord(raw, today), set |-> TRUE]

---------------------------------------------------------------------------
(* Request bodies and the classification of handler lines 98-125 *)

\* JSON values carry their JavaScript type in t.
JStr == [t |-> "string"]
JNull == [t |-> "null"]
JUndefined == [t |-> "undefined"]
JArr(seq) == [t |-> "array", v |-> seq]
JObj(type) == [t |-> "object", type |-> type]   \* type "" : no type field

\* block.type === 'tool_result'; reading .type of null or undefined throws.
BlockThrows(block) == block.t \in {"null", "undefined"}
BlockIsToolResult(block) == block.t = "object" /\ block.type = "tool_result"

\* content.some(block => block.type === 'tool_result') visits the blocks in
\* order and stops at the first tool_result; it throws when it reaches a
\* null block before that.
SomeToolResult(blocks) ==
    \E i \in 1..Len(blocks) : BlockIsToolResult(blocks[i])
SomeThrows(blocks) ==
    \E i \in 1..Len(blocks) :
        /\ BlockThrows(blocks[i])
        /\ \A j \in 1..(i - 1) : ~BlockIsToolResult(blocks[j])

\* requestBody.messages && Array.isArray(requestBody.messages)
HasMessagesArray(body) == body.messages.t = "array"

\* The first entry instead of the last.
LastMessageMutant(body) ==
    IF HasMessagesArray(body) /\ Len(body.messages.v) > 0
    THEN body.messages.v[1]
    ELSE JUndefined

LastMessage(body) ==
    IF HasMessagesArray(body) /\ Len(body.messages.v) > 0
    THEN body.messages.v[Len(body.messages.v)]
    ELSE JUndefined

\* lastMessage?.role === 'user'
LastIsUser(body) ==
    LET m == LastMessage(body) IN m.t = "object" /\ m.role = "user"

\* The classification throws (TypeError, caught by the handler's catch-all).
ClassifyThrows(body) ==
    /\ LastIsUser(body)
    /\ LastMessage(body).content.t = "array"
    /\ SomeThrows(LastMessage(body).content.v)

\* hasNewUserMessage as lines 98-125 leave it (when nothing was thrown).
ClassifyContentMutant(content) ==
    IF content.t = "string" THEN TRUE
    ELSE IF content.t = "array" THEN TRUE
    ELSE ~(content.t = "object" /\ content.type = "tool_result")
ClassifyContent(content) ==
    IF content.t = "string" THEN TRUE
    ELSE IF content.t = "array" THEN ~SomeToolResult(content.v)
    ELSE \* content?.type !== 'tool_result'
         ~(content.t = "object" /\ content.type = "tool_result")

hasNewUserMessage(body) ==
    LastIsUser(body) /\ ClassifyContent(LastMessage(body).content)

Msg(role, content) == [t |-> "object", role |-> role, content |-> content]

---------------------------------------------------------------------------
(* One invocation of the proxy handler: its locals *)

\* pc names the awaited operation the invocation is suspended in.
InitLocals ==
    [ pc |-> "idle",
      req |-> NULL,                   \* method, headers, url, body
      res |-> [statusCode |-> 0, body |-> NULL],
      keyData |-> NULL,
      hasNewUserMessage |-> FALSE,
      data |-> NULL,                  \* the local of getKeyData / incrementUsage
      usageResult |-> NULL,
      settings |-> NULL,
      apiBase |-> <<>>,
      apiUrl |-> <<>>,                \* the upstream URL of line 203
      apiKey |-> "",
      profileModelActual |-> "",
      modelDisplay |-> "",
      modelActual |-> "",
      systemPrompt |-> <<>>,          \* <<>> : undefined, nothing to inject
      redisGets |-> 0,                \* redis.get commands issued
      redisSets |-> 0,                \* redis.set commands issued
      fetches |-> 0,                  \* upstream fetch calls issued
      fetched |-> NULL,               \* how the awaited fetch settled
      timer |-> "unset",              \* the 120 s timer of line 355
      clientClosed |-> FALSE,         \* req has emitted 'close'
      clientDisconnected |-> FALSE,   \* the flag of the 'close' listener
      chunkCount |-> 0,
      received |-> <<>>,              \* the chunks reader.read() returned
      buffered |-> <<>>,              \* the JSON text response.json() read
      written |-> <<>>,               \* the arguments of res.write, in order
      ended |-> 0,                    \* calls that ended the response
      readError |-> FALSE,            \* reader.read() rejected
      cancelled |-> FALSE ]           \* reader.cancel() was called

\* res.status(code).json(body) / res.status(code).end(), then return: the
\* invocation's locals go out of scope.  What stays is the request, the
\* response, incrementUsage's result and the commands that were issued.
Respond(l, code, body) ==
    [InitLocals EXCEPT !.pc = "done",
                       !.req = l.req,
                       !.res = [statusCode |-> code, body |-> body],
                       !.hasNewUserMessage = l.hasNewUserMessage,
                       !.usageResult = l.usageResult,
                       !.redisGets = l.redisGets,
                       !.redisSets = l.redisSets,
                       !.fetches = l.fetches,
                       !.fetched = l.fetched,
                       !.timer = l.timer,
                       !.clientClosed = l.clientClosed,
                       !.received = l.received,
                       !.buffered = l.buffered,
                       !.written = l.written,
                       !.ended = l.ended + 1,
                       !.readError = l.readError,
                       !.cancelled = l.cancelled]

\* The handler returns from the streaming branch: nothing more is sent,
\* the status is the default 200 and what the client got is what was
\* written.
Return(l) == [Respond(l, 200, NULL) EXCEPT !.ended = l.ended]

\* The Authorization header is a sequence of pieces, <<>> when absent:
\* <<"Bearer ", "k1">> is the header "Bearer k1".
StartsWithBearer(authHeader) == Len(authHeader) > 0 /\ authHeader[1] = "Bearer "

\* authHeader.replace('Bearer ', ''): the header without its first piece.
UserToken(authHeader) == IF Len(authHeader) > 1 THEN authHeader[2] ELSE ""

userToken(l) == UserToken(l.req.headers.authorization)

\* The handler without the method check of lines 46-48.
BeginLocalsMutant(l, request) ==
    LET l1 == [l EXCEPT !.req = request] IN
    IF request.method = "OPTIONS" THEN Respond(l1, 200, NULL)
    ELSE IF ~StartsWithBearer(request.headers.authorization)
    THEN Respond(l1, 401, [error |-> "Missing or invalid Authorization header"])
    ELSE [l1 EXCEPT !.pc = "auth_get", !.redisGets = @ + 1]

\* Lines 40-78: up to the await of getKeyData's redis.get.
BeginLocals(l, request) ==
    LET l1 == [l EXCEPT !.req = request] IN
    IF request.method = "OPTIONS" THEN Respond(l1, 200, NULL)
    ELSE IF request.method # "POST"
    THEN Respond(l1, 405, [error |-> "Method not allowed"])
    ELSE IF ~StartsWithBearer(request.headers.authorization)
    THEN Respond(l1, 401, [error |-> "Missing or invalid Authorization header"])
    ELSE [l1 EXCEPT !.pc = "auth_get", !.redisGets = @ + 1]

\* Line 79-82: getKeyData returned null.
InvalidKey(l) == Respond(l, 401, [error |-> "Invalid API key"])

\* Lines 84-139 and 161-168, entered when getKeyData returned kd at instant t:
\* expiry, classification, then the await of incrementUsage's redis.get or,
\* for a request that is not counted, of getSettings' redis.get.
AfterAuth(l, kd, t, zone) ==
    LET l1 == [l EXCEPT !.keyData = kd, !.data = NULL] IN
    IF isExpired(kd, t, zone)
    THEN Respond(l1, 403, [error |-> "API key has expired"])
    ELSE IF ClassifyThrows(l.req.body)
    THEN Respond(l1, 500, [error |-> "Internal server error"])
    ELSE LET hasNew == hasNewUserMessage(l.req.body)
             l2 == [l1 EXCEPT !.hasNewUserMessage = hasNew,
                              !.usageResult = [ allowed |-> TRUE,
                                                currentUsage |-> 0,
                                                limit |-> kd.daily_limit ]]
         IN  IF hasNew
             THEN [l2 EXCEPT !.pc = "incr_get", !.redisGets = @ + 1]
             ELSE [l2 EXCEPT !.pc = "get_settings", !.redisGets = @ + 1]

\* Lines 141-154: incrementUsage returned allowed = false.
QuotaRejectedMutant(l, currentUsage, limit, reason) ==
    IF reason = "server_error"
    THEN [l EXCEPT !.pc = "incr_set", !.redisSets = @ + 1]
    ELSE Respond(l, 429, [error |-> "Daily limit reached"])
QuotaRejected(l, currentUsage, limit, reason) ==
    Respond([l EXCEPT !.usageResult = [ allowed |-> FALSE,
                                        currentUsage |-> currentUsage,
                                        limit |-> limit,
                                        reason |-> reason ]],
            429,
            [ error |-> "Daily limit reached",
              current_usage |-> currentUsage,
              daily_limit |-> limit ])

\* incrementUsage lines 134-145, entered when its getKeyData returned d:
\* the limit check, then the increment and the await of redis.set.
LimitReachedMutant(d) == d.usage_today.count > d.daily_limit
LimitReached(d) == d.usage_today.count >= d.daily_limit

IncrementMutant(d) == [d EXCEPT !.usage_today.count = @ + 2]
Increment(d) == [d EXCEPT !.usage_today.count = @ + 1]

\* The same decision taken on the snapshot of the authentication read.
IncrCheckMutant(l, d) ==
    IF LimitReached(l.keyData)
    THEN QuotaRejected([l EXCEPT !.data = l.keyData],
                       l.keyData.usage_today.count, l.keyData.daily_limit,
                       "daily_limit_reached")
    ELSE [l EXCEPT !.data = Increment(l.keyData), !.pc = "incr_set",
                   !.redisSets = @ + 1]

IncrCheck(l, d) ==
    IF LimitReached(d)
    THEN QuotaRejected([l EXCEPT !.data = d],
                       d.usage_today.count, d.daily_limit, "daily_limit_reached")
    ELSE [l EXCEPT !.data = Increment(d), !.pc = "incr_set", !.redisSets = @ + 1]

\* incrementUsage lines 147-151 and handler lines 156-168: admitted, on to
\* the await of getSettings' redis.get.
Admitted(l) ==
    [l EXCEPT !.usageResult = [ allowed |-> TRUE,
                                currentUsage |-> l.data.usage_today.count,
                                limit |-> l.data.daily_limit ],
              !.pc = "get_settings",
              !.redisGets = @ + 1]

\* The same without the fallback to process.env.API_KEY_GOC.
WithSettingsMutant(l, st, environment) ==
    [l EXCEPT !.settings = st,
              !.apiBase = IF TruthyUrl(st, "api_url") THEN st.api_url
                          ELSE DEFAULT_API_BASE,
              !.apiKey = IF Truthy(st, "api_key") THEN st.api_key ELSE ""]

\* Lines 179-183 after getSettings returned: the global route.
WithSettings(l, st, environment) ==
    [l EXCEPT !.settings = st,
              !.apiBase = IF TruthyUrl(st, "api_url") THEN st.api_url
                          ELSE DEFAULT_API_BASE,
              !.apiKey = IF Truthy(st, "api_key") THEN st.api_key
                         ELSE environment.API_KEY_GOC]

\* keyData.selected_api_profile_id, "" when the key selects no profile.
SelectedProfileId(kd) ==
    IF Has(kd, "selected_api_profile_id") THEN kd.selected_api_profile_id ELSE ""

\* getAPIProfile: profiles[profileId] || null, of the stored table or {}.
getAPIProfile(profiles, profileId) ==
    IF profiles # NULL /\ Has(profiles, profileId) THEN profiles[profileId] ELSE NULL

\* Lines 252-269: the prompt of the key's selected model when settings has
\* a configuration for it, else the global one.  A prompt is a sequence of
\* characters; <<>> stands for the empty string and for undefined, which the
\* code does not tell apart.
SystemPromptOfMutant(st, kd) ==
    IF st # NULL /\ Has(st, "system_prompt") THEN st.system_prompt ELSE <<>>
SystemPromptOf(st, kd) ==
    LET selected == IF Has(kd, "selected_model") THEN kd.selected_model ELSE ""
    IN  IF selected # "" /\ st # NULL /\ Has(st, "models")
           /\ Has(st.models, selected)
        THEN IF Has(st.models[selected], "system_prompt")
             THEN st.models[selected].system_prompt ELSE <<>>
        ELSE IF st # NULL /\ Has(st, "system_prompt") THEN st.system_prompt
        ELSE <<>>

\* String.prototype.trim: white space is removed from both ends.
WhiteSpace == {" ", "\t", "\n", "\r"}

RECURSIVE TrimStart(_)
TrimStart(str) ==
    IF str # <<>> /\ Head(str) \in WhiteSpace THEN TrimStart(Tail(str)) ELSE str

RECURSIVE TrimEnd(_)
TrimEnd(str) ==
    IF str # <<>> /\ str[Len(str)] \in WhiteSpace
    THEN TrimEnd(SubSeq(str, 1, Len(str) - 1)) ELSE str

TrimMutant(str) == str
Trim(str) == TrimEnd(TrimStart(str))

\* Prompts of the model: "Be brief.", the same padded, and a blank one.
PROMPT == <<"B", "e", " ", "b", "r", "i", "e", "f", ".">>
PADDED_PROMPT == <<" ", " ">> \o PROMPT \o <<"\n">>
BLANK_PROMPT == <<" ", " ", " ">>

MAX_SYSTEM_PROMPT_LENGTH == 10000

\* Lines 272-295: trimmed, undefined when empty after the trim, cut to
\* MAX_SYSTEM_PROMPT_LENGTH characters.
Sanitize(prompt) ==
    LET trimmed == Trim(prompt)
    IN  IF Len(trimmed) > MAX_SYSTEM_PROMPT_LENGTH
        THEN SubSeq(trimmed, 1, MAX_SYSTEM_PROMPT_LENGTH) ELSE trimmed

\* String.prototype.endsWith, startsWith and includes.
EndsWith(str, suffix) ==
    /\ Len(str) >= Len(suffix)
    /\ SubSeq(str, Len(str) - Len(suffix) + 1, Len(str)) = suffix

StartsWith(str, prefix) ==
    /\ Len(str) >= Len(prefix)
    /\ SubSeq(str, 1, Len(prefix)) = prefix

OccursAt(str, sub, i) == SubSeq(str, i, i + Len(sub) - 1) = sub

Includes(str, sub) == \E i \in 1..(Len(str) - Len(sub) + 1) : OccursAt(str, sub, i)

\* String.prototype.replace(sub, ''): the first occurrence is removed.
RemoveFirst(str, sub) ==
    IF ~Includes(str, sub) THEN str
    ELSE LET i == CHOOSE i \in 1..(Len(str) - Len(sub) + 1) :
                      /\ OccursAt(str, sub, i)
                      /\ \A j \in 1..(i - 1) : ~OccursAt(str, sub, j)
         IN  SubSeq(str, 1, i - 1) \o SubSeq(str, i + Len(sub), Len(str))

SLASH == <<"/">>
V1 == <<"/", "v", "1">>
MESSAGES == <<"/", "m", "e", "s", "s", "a", "g", "e", "s">>
\* "/v1/chat/completions"
CHAT_PATH ==
    <<"/", "v", "1", "/", "c", "h", "a", "t", "/", "c", "o", "m",
      "p", "l", "e", "t", "i", "o", "n", "s">>

\* buildUpstreamUrl (lines 16-38).
buildUpstreamUrl(apiBase, clientPath) ==
    LET base == IF EndsWith(apiBase, SLASH)
                THEN SubSeq(apiBase, 1, Len(apiBase) - 1) ELSE apiBase
        pathWithoutV1 == IF StartsWith(clientPath, V1)
                         THEN RemoveFirst(clientPath, V1) ELSE clientPath
    IN  IF EndsWith(base, V1) THEN base \o pathWithoutV1
        ELSE base \o clientPath

\* clientPath.includes('/messages').
PathHasMessages(clientPath) == Includes(clientPath, MESSAGES)

\* Line 299.
IsAnthropic(body, clientPath) == Has(body, "system") \/ PathHasMessages(clientPath)

JText(str) == [t |-> "string", v |-> str]
SystemMessage(prompt) == [t |-> "object", role |-> "system", content |-> JText(prompt)]

\* msg.role === 'system'; reading .role of null throws.
IsSystemMessage(msg) == msg.t = "object" /\ msg.role = "system"

\* Lines 304-313: the log of the original system field evaluates
\* JSON.stringify(existingSystem).substring(0, 100) when the field is not a
\* string; JSON.stringify(undefined) is undefined, whose substring throws.
SystemLogThrows(body) == ~Has(body, "system")

\* Lines 318-320: messages.some(...) reaches a null entry before a system
\* message and throws.
InjectThrows(body, prompt, clientPath) ==
    /\ prompt # <<>>
    /\ IF IsAnthropic(body, clientPath) THEN SystemLogThrows(body)
       ELSE /\ HasMessagesArray(body)
            /\ \E i \in 1..Len(body.messages.v) :
                  /\ body.messages.v[i].t \in {"null", "undefined"}
                  /\ \A j \in 1..(i - 1) : ~IsSystemMessage(body.messages.v[j])

\* Lines 297-340: the request body after the injection of `prompt`.
Inject(body, prompt, clientPath) ==
    IF prompt = <<>> THEN body
    ELSE IF IsAnthropic(body, clientPath)
    THEN [f \in DOMAIN body \cup {"system"} |->
             IF f = "system" THEN JText(prompt) ELSE body[f]]
    ELSE IF HasMessagesArray(body)
    THEN LET msgs == body.messages.v IN
         IF \E i \in 1..Len(msgs) : IsSystemMessage(msgs[i])
         THEN [body EXCEPT !.messages.v =
                  [i \in 1..Len(msgs) |->
                      IF IsSystemMessage(msgs[i]) THEN SystemMessage(prompt)
                      ELSE msgs[i]]]
         ELSE [body EXCEPT !.messages.v = <<SystemMessage(prompt)>> \o msgs]
    ELSE body

\* Line 187: profile && profile.is_active.
UseProfileMutant(profile) == profile # NULL
UseProfile(profile) == profile # NULL /\ profile.is_active

\* Line 220: profileModelActual || settings?.model_actual || the default.
ModelActualOfMutant(profileModelActual, st) ==
    IF Truthy(st, "model_actual") THEN st.model_actual ELSE DEFAULT_MODEL_ACTUAL
ModelActualOf(profileModelActual, st) ==
    IF profileModelActual # "" THEN profileModelActual
    ELSE IF Truthy(st, "model_actual") THEN st.model_actual
    ELSE DEFAULT_MODEL_ACTUAL

\* Line 231: requestBody.model !== modelDisplay.
InvalidModelMutant(body, modelDisplay) == FALSE
InvalidModel(body, modelDisplay) == body.model # modelDisplay

\* Line 206: !apiKey.
CredentialMissingMutant(apiKey) == FALSE
CredentialMissing(apiKey) == apiKey = ""

\* Line 52: req.url || '/v1/chat/completions'.
ClientPath(req) == IF req.url # <<>> THEN req.url ELSE CHAT_PATH

\* Lines 185-372, entered with the selected profile (or null): profile
\* override, credential check, model gate and rewrite, prompt injection,
\* then the await of the upstream fetch.
Resolve(l, profile) ==
    LET useProfile == UseProfile(profile)
        apiBase == IF useProfile THEN profile.api_url ELSE l.apiBase
        apiKey == IF useProfile THEN profile.api_key ELSE l.apiKey
        profileModelActual ==
            IF useProfile /\ Has(profile, "model_actual")
            THEN profile.model_actual ELSE ""
        modelDisplay ==
            IF Truthy(l.settings, "model_display")
            THEN l.settings.model_display ELSE DEFAULT_MODEL_DISPLAY
        modelActual == ModelActualOf(profileModelActual, l.settings)
        apiUrl == buildUpstreamUrl(apiBase, ClientPath(l.req))
        l1 == [l EXCEPT !.apiBase = apiBase, !.apiKey = apiKey,
                        !.apiUrl = apiUrl,
                        !.profileModelActual = profileModelActual]
        l2 == [l1 EXCEPT !.modelDisplay = modelDisplay,
                         !.modelActual = modelActual]
    IN  IF CredentialMissing(apiKey)
        THEN Respond(l1, 500, [error |-> "API Key not configured"])
        ELSE IF InvalidModel(l.req.body, modelDisplay)
        THEN Respond(l2, 400, [ error |-> "Invalid model",
                                type |-> "invalid_request_error" ])
        ELSE LET body == [l.req.body EXCEPT !.model = modelActual]
                 clientPath == ClientPath(l.req)
                 prompt == Sanitize(SystemPromptOf(l.settings, l.keyData))
             IN  IF InjectThrows(body, prompt, clientPath)
                 THEN Respond([l2 EXCEPT !.req.body = body], 500,
                              [error |-> "Internal server error"])
                 ELSE [l2 EXCEPT !.req.body = Inject(body, prompt, clientPath),
                                 !.systemPrompt = prompt,
                                 !.pc = "fetch",
                                 !.timer = "armed",
                                 !.fetches = @ + 1]

\* Lines 185-186: with a selected profile, await getAPIProfile's redis.get.
AfterSettings(l) ==
    IF SelectedProfileId(l.keyData) # ""
    THEN [l EXCEPT !.pc = "get_profile", !.redisGets = @ + 1]
    ELSE Resolve(l, NULL)

\* The characters of the model ids of the model: the pattern and the
\* replacement of the substitutions below.
Spell(id) ==
    CASE id = "Public-Model" ->
           <<"P", "u", "b", "l", "i", "c", "-", "M", "o", "d",
             "e", "l">>
      [] id = "upstream-model" ->
           <<"u", "p", "s", "t", "r", "e", "a", "m", "-", "m",
             "o", "d", "e", "l">>
      [] id = "profile-model" ->
           <<"p", "r", "o", "f", "i", "l", "e", "-", "m", "o",
             "d", "e", "l">>
      [] id = "Sonnet-VIP" ->
           <<"S", "o", "n", "n", "e", "t", "-", "V", "I", "P">>
      [] id = DEFAULT_MODEL_DISPLAY ->
           <<"C", "l", "a", "u", "d", "e", "-", "O", "p", "u",
             "s", "-", "4", ".", "5", "-", "V", "I", "P">>
      [] id = DEFAULT_MODEL_ACTUAL ->
           <<"c", "l", "a", "u", "d", "e", "-", "h", "a", "i",
             "k", "u", "-", "4", "-", "5", "-", "2", "0", "2",
             "5", "1", "0", "0", "1">>

\* str.replace(new RegExp(pattern, 'g'), replacement) for a pattern without
\* metacharacters: the occurrences are found left to right, each search
\* resuming after the previous match.
RECURSIVE ReplaceAll(_, _, _)
ReplaceAll(str, pattern, replacement) ==
    IF Len(str) < Len(pattern) \/ Len(pattern) = 0 THEN str
    ELSE IF StartsWith(str, pattern)
    THEN replacement
             \o ReplaceAll(SubSeq(str, Len(pattern) + 1, Len(str)),
                           pattern, replacement)
    ELSE <<Head(str)>> \o ReplaceAll(Tail(str), pattern, replacement)

CLAUDE_CODE == <<"C", "l", "a", "u", "d", "e", " ", "C", "o", "d", "e">>
CLAUDE_OPUS == <<"C", "l", "a", "u", "d", "e", " ", "O", "p", "u", "s">>
CLAUDE_3_5_HAIKU ==
    <<"c", "l", "a", "u", "d", "e", "-", "3", "-", "5", "-", "h",
      "a", "i", "k", "u">>
HAIKU == <<"H", "a", "i", "k", "u">>
SONNET == <<"S", "o", "n", "n", "e", "t">>
OPUS == <<"O", "p", "u", "s">>
SONNET_4_5 == <<"4", ".", "5", " ">> \o SONNET
OPUS_4_5 == <<"4", ".", "5", " ">> \o OPUS

\* Lines 470-476 and 522-527: the six replacements, on a decoded chunk or
\* on the JSON text of a buffered body.
Substitute(text, modelActual, modelDisplay) ==
    LET t1 == ReplaceAll(text, Spell(modelActual), Spell(modelDisplay))
        t2 == ReplaceAll(t1, CLAUDE_CODE, CLAUDE_OPUS)
        t3 == ReplaceAll(t2, CLAUDE_3_5_HAIKU, Spell(modelDisplay))
        t4 == ReplaceAll(t3, HAIKU, OPUS)
        t5 == ReplaceAll(t4, SONNET, OPUS)
    IN  ReplaceAll(t5, SONNET_4_5, OPUS_4_5)

\* What the awaited fetch can do: resolve with a response of some status,
\* reject with AbortError (the 120 s timer fired), reject with a network
\* error.  response.ok is status in 200..299.
UpstreamStatuses == {200, 429, 500}
FetchOutcomes ==
    [kind : {"response"}, status : UpstreamStatuses]
        \cup {[kind |-> "abort"], [kind |-> "network"]}

\* The text of the body of an upstream response of a non-success status.
ErrorText(status) == <<"upstream error", status>>

\* Lines 373-384 and 533-543: the fetch rejected.  An AbortError (the timer
\* called controller.abort()) is answered 504; any other error is thrown
\* on to the handler's outer catch.
RejectedMutant(l, outcome) ==
    Respond(l, 500, [error |-> "Internal server error"])
Rejected(l, outcome) ==
    IF outcome.kind = "abort"
    THEN Respond(l, 504, [error |-> "Request timeout - upstream took too long"])
    ELSE Respond(l, 500, [error |-> "Internal server error"])

\* Lines 373-432, with the fetch settled as `outcome`.
Settled(l, outcome) ==
    IF outcome.kind \in {"abort", "network"} THEN Rejected(l, outcome)
    ELSE IF ~(outcome.status >= 200 /\ outcome.status <= 299)
    THEN Respond(l, outcome.status, [ error |-> "Upstream API error",
                                      details |-> ErrorText(outcome.status) ])
    ELSE IF l.req.body.stream
    THEN [l EXCEPT !.pc = "read"]
    ELSE [l EXCEPT !.pc = "relay"]

\* Lines 374 and 385: clearTimeout(timeoutId) on either exit of the fetch.
ClearTimeoutMutant(l) == l
ClearTimeout(l) == [l EXCEPT !.timer = "cleared"]

AfterFetch(l, outcome) ==
    Settled(ClearTimeout([l EXCEPT !.fetched = outcome]), outcome)

---------------------------------------------------------------------------
(* Actions: one per awaited operation *)

\* The handler is invoked with `request`.  Invocations are numbered in the
\* order they arrive.
Begin(r, Requests) ==
    /\ handler[r].pc = "idle"
    /\ \A q \in Reqs : q < r => handler[q].pc # "idle"
    /\ \E request \in Requests :
         handler' = [handler EXCEPT ![r] = BeginLocals(@, request)]
    /\ UNCHANGED <<redis, now, tz, env, admin>>

\* Handler line 78: getKeyData's redis.get completes.
AuthGet(r, outcomes) ==
    /\ handler[r].pc = "auth_get"
    /\ \E out \in outcomes :
         LET l == handler[r]
             g == getKeyData(RedisGet(userToken(l)), Today(now))
         IN  handler' = [handler EXCEPT ![r] =
                 IF out = "error" \/ g.data = NULL THEN InvalidKey(l)
                 ELSE IF g.set
                 THEN [l EXCEPT !.data = g.data, !.pc = "auth_set",
                                !.redisSets = @ + 1]
                 ELSE AfterAuth(l, g.data, now, tz)]
    /\ UNCHANGED <<redis, now, tz, env, admin>>

\* Handler line 78: getKeyData's redis.set (reset or migration) completes.
AuthSet(r, outcomes) ==
    /\ handler[r].pc = "auth_set"
    /\ \E out \in outcomes :
         LET l == handler[r] IN
         /\ redis' = IF out = "ok" THEN RedisSet(userToken(l), l.data) ELSE redis
         /\ handler' = [handler EXCEPT ![r] =
                 IF out = "ok" THEN AfterAuth(l, l.data, now, tz)
                 ELSE InvalidKey(l)]
    /\ UNCHANGED <<now, tz, env, admin>>

\* incrementUsage line 131: getKeyData's redis.get completes.
IncrGet(r, outcomes) ==
    /\ handler[r].pc = "incr_get"
    /\ \E out \in outcomes :
         LET l == handler[r]
             g == getKeyData(RedisGet(userToken(l)), Today(now))
         IN  handler' = [handler EXCEPT ![r] =
                 IF out = "error" \/ g.data = NULL
                 THEN QuotaRejected(l, 0, 0, "invalid_key")
                 ELSE IF g.set
                 THEN [l EXCEPT !.data = g.data, !.pc = "incr_reset",
                                !.redisSets = @ + 1]
                 ELSE IncrCheck(l, g.data)]
    /\ UNCHANGED <<redis, now, tz, env, admin>>

\* incrementUsage line 131: getKeyData's redis.set completes.
IncrReset(r, outcomes) ==
    /\ handler[r].pc = "incr_reset"
    /\ \E out \in outcomes :
         LET l == handler[r] IN
         /\ redis' = IF out = "ok" THEN RedisSet(userToken(l), l.data) ELSE redis
         /\ handler' = [handler EXCEPT ![r] =
                 IF out = "ok" THEN IncrCheck(l, l.data)
                 ELSE QuotaRejected(l, 0, 0, "invalid_key")]
    /\ UNCHANGED <<now, tz, env, admin>>

\* incrementUsage line 145: the redis.set of the incremented record completes.
IncrSet(r, outcomes) ==
    /\ handler[r].pc = "incr_set"
    /\ \E out \in outcomes :
         LET l == handler[r] IN
         /\ redis' = IF out = "ok" THEN RedisSet(userToken(l), l.data) ELSE redis
         /\ handler' = [handler EXCEPT ![r] =
                 IF out = "ok" THEN Admitted(l)
                 ELSE QuotaRejected(l, 0, 0, "server_error")]
    /\ UNCHANGED <<now, tz, env, admin>>

\* Handler line 168: getSettings' redis.get completes (null on an error).
GetSettings(r, outcomes) ==
    /\ handler[r].pc = "get_settings"
    /\ \E out \in outcomes :
         LET st == IF out = "error" THEN NULL ELSE RedisGet(SETTINGS_KEY)
         IN  handler' = [handler EXCEPT ![r] =
                 AfterSettings(WithSettings(@, st, env))]
    /\ UNCHANGED <<redis, now, tz, env, admin>>

\* Handler line 186: getAPIProfile's redis.get completes ({} on an error).
GetProfile(r, outcomes) ==
    /\ handler[r].pc = "get_profile"
    /\ \E out \in outcomes :
         LET profiles == IF out = "error" THEN NULL
                         ELSE RedisGet(API_PROFILES_KEY)
             l == handler[r]
         IN  handler' = [handler EXCEPT ![r] =
                 Resolve(l, getAPIProfile(profiles,
                                          SelectedProfileId(l.keyData)))]
    /\ UNCHANGED <<redis, now, tz, env, admin>>

\* Handler line 362: the awaited fetch settles; once the timer has fired it
\* rejects with AbortError.
Fetch(r, outcomes) ==
    /\ handler[r].pc = "fetch"
    /\ \E outcome \in outcomes :
         /\ handler[r].timer = "fired" => outcome.kind = "abort"
         /\ handler' = [handler EXCEPT ![r] = AfterFetch(@, outcome)]
    /\ UNCHANGED <<redis, now, tz, env, admin>>

\* Lines 355-358: the timer fires, if it is still set, and its callback
\* calls controller.abort(); a fetch in flight then rejects with AbortError.
TimerFire(r) ==
    /\ handler[r].timer = "armed"
    /\ handler' = [handler EXCEPT ![r].timer = "fired"]
    /\ UNCHANGED <<redis, now, tz, env, admin>>

\* What the awaited reader.read() can do: resolve with a chunk, resolve
\* with done, reject.  The bytes of a chunk are ASCII: the decoder maps
\* each to its character and holds nothing back.
ReadOutcomes(chunks) ==
    [kind : {"chunk"}, value : chunks] \cup {[kind |-> "done"], [kind |-> "error"]}

\* Lines 442-504, from the settling of reader.read() to the next await or
\* to the return.
\* Lines 486-505: the catch of the streaming loop.
StreamFailedMutant(l) == Respond(l, 502, [error |-> "Upstream stream failed"])
StreamFailed(l) ==
    IF l.chunkCount = 0
    THEN Respond(l, 502, [error |-> "Upstream stream failed"])
    ELSE Return([l EXCEPT !.ended = IF @ = 0 THEN 1 ELSE @])

AfterReadMutant(l, outcome) == Return(l)
AfterRead(l, outcome) ==
    IF outcome.kind = "error"
    THEN StreamFailed([l EXCEPT !.readError = TRUE])
    ELSE IF outcome.kind = "done"
    THEN Return([l EXCEPT !.ended = @ + 1])
    ELSE LET chunk == Substitute(outcome.value, l.modelActual, l.modelDisplay)
             l1 == [l EXCEPT !.chunkCount = @ + 1,
                             !.received = Append(@, outcome.value)]
         IN  IF l.ended > 0 THEN Return(l1)
             ELSE LET l2 == [l1 EXCEPT !.written = Append(@, chunk)]
                  IN  IF l.clientDisconnected
                      THEN [l2 EXCEPT !.pc = "cancel", !.cancelled = TRUE]
                      ELSE l2

\* Line 442: the awaited reader.read() settles; at most MaxChunks chunks.
Read(r, outcomes) ==
    /\ handler[r].pc = "read"
    /\ \E outcome \in outcomes :
         /\ outcome.kind = "chunk" => Len(handler[r].received) < MaxChunks
         /\ handler' = [handler EXCEPT ![r] = AfterRead(@, outcome)]
    /\ UNCHANGED <<redis, now, tz, env, admin>>

\* Line 438: the awaited reader.cancel() resolves; the loop is left and the
\* handler returns.
Cancel(r) ==
    /\ handler[r].pc = "cancel"
    /\ handler' = [handler EXCEPT ![r] = Return(@)]
    /\ UNCHANGED <<redis, now, tz, env, admin>>

\* The client goes away while the invocation runs: req emits 'close', once.
\* The listener of line 417 runs if it is registered by then, which it is
\* from the start of the streaming branch on.
ClientClose(r) ==
    /\ handler[r].pc \notin {"idle", "done"}
    /\ ~handler[r].clientClosed
    /\ handler' = [handler EXCEPT
           ![r].clientClosed = TRUE,
           ![r].clientDisconnected = handler[r].pc \in {"read", "cancel"}]
    /\ UNCHANGED <<redis, now, tz, env, admin>>

\* What the awaited response.json() can do: resolve with the data, here by
\* its JSON text, or reject.
JsonOutcomes(texts) == [kind : {"json"}, text : texts] \cup {[kind |-> "error"]}

\* Lines 511-543.
AfterJson(l, outcome) ==
    IF outcome.kind = "error"
    THEN Respond(l, 500, [error |-> "Internal server error"])
    ELSE Respond([l EXCEPT !.buffered = <<outcome.text>>], 200,
                 Substitute(outcome.text, l.modelActual, l.modelDisplay))

\* Line 511: the awaited response.json() settles.
ReadJson(r, outcomes) ==
    /\ handler[r].pc = "relay"
    /\ \E outcome \in outcomes :
         handler' = [handler EXCEPT ![r] = AfterJson(@, outcome)]
    /\ UNCHANGED <<redis, now, tz, env, admin>>

\* Lines 506-532 with a body without text: the response is relayed.
Relay(r) == ReadJson(r, {[kind |-> "json", text |-> <<>>]})

\* The clock advances by one tick, up to the last instant of LastDay.
Tick ==
    /\ now < (LastDay + 1) * TicksPerDay - 1
    /\ now' = now + 1
    /\ UNCHANGED <<redis, tz, env, handler, admin>>

\* Every step of invocation r after its start, in an environment whose
\* Redis commands end in one of redisOutcomes and whose fetch settles in one
\* of fetchOutcomes.
Step(r, redisOutcomes, fetchOutcomes) ==
    \/ AuthGet(r, redisOutcomes) \/ AuthSet(r, redisOutcomes)
    \/ IncrGet(r, redisOutcomes) \/ IncrReset(r, redisOutcomes)
    \/ IncrSet(r, redisOutcomes)
    \/ GetSettings(r, redisOutcomes) \/ GetProfile(r, redisOutcomes)
    \/ Fetch(r, fetchOutcomes) \/ Relay(r)

---------------------------------------------------------------------------
(* The administrative operations of lib/redis.ts                           *)
(*                                                                         *)
(* admin is the administrative call in flight: its name and arguments, the *)
(* awaited Redis command it is suspended in, its local `data` and, once it *)
(* has returned, its result.  deleteKey and createKey issue one command    *)
(* and are one step each; deleted records that deleteKey has completed for *)
(* key k1 and createKey has not been called for it since.                  *)

AdminIdle ==
    [ op |-> "none", keyName |-> "", arg |-> NULL, pc |-> "idle",
      data |-> NULL, result |-> NULL, deleted |-> FALSE,
      req |-> NULL,       \* the request of the settings-save handler
      read |-> "none" ]   \* how saveSettings' read of the record ended

\* The argument modelId / profileId: null, or an id.
Id(id) == [id |-> id]

AdminCall(op, keyName, arg) == [op |-> op, keyName |-> keyName, arg |-> arg]

\* The call returns `result`: its locals go out of scope.
AdminReturn(a, result) ==
    [AdminIdle EXCEPT !.op = a.op, !.keyName = a.keyName, !.arg = a.arg,
                      !.pc = "done", !.result = [value |-> result],
                      !.deleted = a.deleted, !.req = a.req]

\* delete data[f] and data[f] = v on a record.
DeleteField(rec, f) == [k \in DOMAIN rec \ {f} |-> rec[k]]
SetField(rec, f, v) ==
    [k \in DOMAIN rec \cup {f} |-> IF k = f THEN v ELSE rec[k]]

\* The same call that forgets what it was given and clears the selection.
SelectMutant(d, f, arg) == DeleteField(d, f)

\* Lines 292-296 and 447-455: the selection is removed for null, set
\* otherwise.
Select(d, f, arg) ==
    IF arg = NULL THEN DeleteField(d, f) ELSE SetField(d, f, arg.id)

\* setKeySelectedModel lines 292-298 and setKeySelectedProfile lines
\* 447-450, entered when getKeyData returned d (not null): up to the next
\* awaited command.
AfterKeyData(a, d) ==
    IF a.op = "setKeySelectedModel"
    THEN [a EXCEPT !.data = Select(d, "selected_model", a.arg),
                   !.pc = "key_set"]
    ELSE IF a.arg = NULL
    THEN [a EXCEPT !.data = Select(d, "selected_api_profile_id", a.arg),
                   !.pc = "key_set"]
    ELSE [a EXCEPT !.data = d, !.pc = "profile_get"]

\* The administrator calls setKeySelectedModel or setKeySelectedProfile:
\* the call runs up to the redis.get of its getKeyData.
AdminBegin(calls) ==
    /\ admin.pc \in {"idle", "done"}
    /\ \E call \in calls :
         admin' = [AdminIdle EXCEPT !.op = call.op, !.keyName = call.keyName,
                                    !.arg = call.arg, !.pc = "key_get",
                                    !.deleted = admin.deleted]
    /\ UNCHANGED <<redis, now, tz, env, handler>>

\* Lines 289-290 and 444-445: getKeyData's redis.get completes.
AdminKeyGet(outcomes) ==
    /\ admin.pc = "key_get"
    /\ \E out \in outcomes :
         LET g == getKeyData(RedisGet(admin.keyName), Today(now))
         IN  admin' = IF out = "error" \/ g.data = NULL
                      THEN AdminReturn(admin, FALSE)
                      ELSE IF g.set
                      THEN [admin EXCEPT !.data = g.data, !.pc = "key_reset"]
                      ELSE AfterKeyData(admin, g.data)
    /\ UNCHANGED <<redis, now, tz, env, handler>>

\* getKeyData's redis.set (reset or migration) completes.
AdminKeyReset(outcomes) ==
    /\ admin.pc = "key_reset"
    /\ \E out \in outcomes :
         /\ redis' = IF out = "ok" THEN RedisSet(admin.keyName, admin.data)
                     ELSE redis
         /\ admin' = IF out = "ok" THEN AfterKeyData(admin, admin.data)
                     ELSE AdminReturn(admin, FALSE)
    /\ UNCHANGED <<now, tz, env, handler>>

\* setKeySelectedProfile lines 451-454: getAPIProfile's redis.get completes
\* ({} on an error).
AdminProfileGet(outcomes) ==
    /\ admin.pc = "profile_get"
    /\ \E out \in outcomes :
         LET profiles == IF out = "error" THEN NULL
                         ELSE RedisGet(API_PROFILES_KEY)
         IN  admin' = IF getAPIProfile(profiles, admin.arg.id) = NULL
                      THEN AdminReturn(admin, FALSE)
                      ELSE [admin EXCEPT
                               !.data = Select(admin.data,
                                               "selected_api_profile_id",
                                               admin.arg),
                               !.pc = "key_set"]
    /\ UNCHANGED <<redis, now, tz, env, handler>>

\* Lines 298-299 and 457-458: the redis.set of the record completes.
AdminKeySet(outcomes) ==
    /\ admin.pc = "key_set"
    /\ \E out \in outcomes :
         /\ redis' = IF out = "ok" THEN RedisSet(admin.keyName, admin.data)
                     ELSE redis
         /\ admin' = AdminReturn(admin, out = "ok")
    /\ UNCHANGED <<now, tz, env, handler>>

\* deleteKey lines 163-171: redis.del completes.
DeleteKey(keyName, outcomes) ==
    /\ \E out \in outcomes :
         /\ redis' = IF out = "ok"
                     THEN [k \in DOMAIN redis \ {keyName} |-> redis[k]]
                     ELSE redis
         /\ admin' = [admin EXCEPT !.deleted = @ \/ out = "ok"]
    /\ UNCHANGED <<now, tz, env, handler>>

\* createKey lines 95-117: redis.set of a fresh record completes.
CreateKey(keyName, expiry, dailyLimit, outcomes) ==
    /\ \E out \in outcomes :
         /\ redis' = IF out = "ok"
                     THEN RedisSet(keyName,
                                   KeyRecord(expiry, dailyLimit, Today(now), 0))
                     ELSE redis
         /\ admin' = [admin EXCEPT !.deleted = @ /\ out # "ok"]
    /\ UNCHANGED <<now, tz, env, handler>>

---------------------------------------------------------------------------
(* The settings-save handler of api/admin/settings/save.ts and saveSettings *)
(*                                                                         *)
(* The handler is an administrative call as well: admin.arg holds the      *)
(* arguments it passes to saveSettings, admin.data the record saveSettings *)
(* builds, admin.result the status it answers with.                        *)

\* verifyToken(token) of lib/auth: an identity for the tokens it issued,
\* nothing for any other.
ISSUED_TOKEN == "jwt"
verifyToken(token) == token = ISSUED_TOKEN

\* new URL(api_url) without a base: it parses a string that starts with a
\* scheme and "://" followed by a host, and throws on the others.
SCHEME_SEP == <<":", "/", "/">>
UrlParses(url) ==
    \E i \in 2..(Len(url) - 3) :
        /\ OccursAt(url, SCHEME_SEP, i)
        /\ \A j \in 1..(i - 1) : url[j] \notin {":", "/", " ", "."}

\* A field of the JSON body is a non-empty string.
NonEmptyString(body, f, empty) ==
    Has(body, f) /\ body[f].t = "string" /\ body[f].v # empty

\* The optional argument f of saveSettings: left out when the body has no
\* such field.
Optional(body, f) ==
    IF Has(body, f) THEN [k \in {f} |-> body[f].v] ELSE [k \in {} |-> NULL]

\* Line 42 of save.ts: the arguments of saveSettings.
SaveArgs(body) ==
    [api_url |-> body.api_url.v, api_key |-> body.api_key.v]
        @@ Optional(body, "model_display") @@ Optional(body, "model_actual")
        @@ Optional(body, "system_prompt")

\* saveSettings line 250: the default of model_actual.
SAVE_MODEL_ACTUAL == "claude-3-5-haiku-20241022"

\* a || b || c for strings: the first that is present and not empty.
FirstTruthy(args, existing, f, default) ==
    IF Truthy(args, f) THEN args[f]
    ELSE IF Truthy(existing, f) THEN existing[f]
    ELSE default

\* saveSettings lines 246-253: the record built from the arguments and the
\* existing record (null when there is none or its read failed).
NewSettings(args, existing) ==
    [ api_url |-> args.api_url,
      api_key |-> args.api_key,
      model_display |->
          FirstTruthy(args, existing, "model_display", DEFAULT_MODEL_DISPLAY),
      model_actual |->
          FirstTruthy(args, existing, "model_actual", SAVE_MODEL_ACTUAL),
      system_prompt |->
          IF Has(args, "system_prompt") THEN args.system_prompt
          ELSE IF existing # NULL /\ Has(existing, "system_prompt")
          THEN existing.system_prompt
          ELSE <<>>,
      models |->
          IF existing # NULL /\ Has(existing, "models") THEN existing.models
          ELSE [k \in {} |-> NULL] ]

\* res.status(code).json(...) of save.ts, then return.
SaveRespond(a, code) == AdminReturn(a, code)

\* The handler that saves whatever body it is sent.
SaveChecksMutant(a, request) ==
    IF request.method # "POST" THEN SaveRespond(a, 405)
    ELSE IF ~StartsWithBearer(request.headers.authorization)
    THEN SaveRespond(a, 401)
    ELSE IF ~verifyToken(UserToken(request.headers.authorization))
    THEN SaveRespond(a, 401)
    ELSE IF request.body = NULL THEN SaveRespond(a, 500)
    ELSE IF ~NonEmptyString(request.body, "api_url", <<>>)
    THEN SaveRespond(a, 400)
    ELSE IF ~NonEmptyString(request.body, "api_key", "")
    THEN SaveRespond(a, 400)
    ELSE [a EXCEPT !.arg = SaveArgs(request.body), !.pc = "settings_get"]

\* save.ts lines 5-42: the checks of the handler up to the await of
\* saveSettings' getSettings; destructuring an absent body throws.
SaveChecks(a, request) ==
    IF request.method # "POST" THEN SaveRespond(a, 405)
    ELSE IF ~StartsWithBearer(request.headers.authorization)
    THEN SaveRespond(a, 401)
    ELSE IF ~verifyToken(UserToken(request.headers.authorization))
    THEN SaveRespond(a, 401)
    ELSE IF request.body = NULL THEN SaveRespond(a, 500)
    ELSE IF ~NonEmptyString(request.body, "api_url", <<>>)
    THEN SaveRespond(a, 400)
    ELSE IF ~NonEmptyString(request.body, "api_key", "")
    THEN SaveRespond(a, 400)
    ELSE IF ~UrlParses(request.body.api_url.v) THEN SaveRespond(a, 400)
    ELSE [a EXCEPT !.arg = SaveArgs(request.body), !.pc = "settings_get"]

\* The settings-save handler is invoked with `request`.
SaveBegin(requests) ==
    /\ admin.pc \in {"idle", "done"}
    /\ \E request \in requests :
         admin' = SaveChecks([AdminIdle EXCEPT !.op = "save",
                                               !.keyName = SETTINGS_KEY,
                                               !.req = request,
                                               !.deleted = admin.deleted],
                             request)
    /\ UNCHANGED <<redis, now, tz, env, handler>>

\* saveSettings line 244: getSettings' redis.get completes (null on an
\* error), and the new record is built.
SaveGet(outcomes) ==
    /\ admin.pc = "settings_get"
    /\ \E out \in outcomes :
         LET existing == IF out = "error" THEN NULL ELSE RedisGet(SETTINGS_KEY)
         IN  admin' = [admin EXCEPT !.data = NewSettings(admin.arg, existing),
                                    !.read = out,
                                    !.pc = "settings_set"]
    /\ UNCHANGED <<redis, now, tz, env, handler>>

\* saveSettings line 254 and save.ts lines 44-51: the redis.set completes.
SaveSet(outcomes) ==
    /\ admin.pc = "settings_set"
    /\ \E out \in outcomes :
         /\ redis' = IF out = "ok" THEN RedisSet(SETTINGS_KEY, admin.data)
                     ELSE redis
         /\ admin' = [SaveRespond(admin, IF out = "ok" THEN 200 ELSE 500)
                         EXCEPT !.read = admin.read]
    /\ UNCHANGED <<now, tz, env, handler>>

---------------------------------------------------------------------------
(* Requests and stores the specifications start from *)

MODEL_DISPLAY == "Public-Model"
\* "https://u.example" and "https://p.example"
U_HOST ==
    <<"h", "t", "t", "p", "s", ":", "/", "/", "u", ".", "e", "x",
      "a", "m", "p", "l", "e">>
P_HOST ==
    <<"h", "t", "t", "p", "s", ":", "/", "/", "p", ".", "e", "x",
      "a", "m", "p", "l", "e">>
MODEL_ACTUAL == "upstream-model"

\* A settings record as saveSettings writes it.
SettingsRecord(apiKey) ==
    [ api_url |-> U_HOST \o V1,
      api_key |-> apiKey,
      model_display |-> MODEL_DISPLAY,
      model_actual |-> MODEL_ACTUAL,
      system_prompt |-> <<>> ]

SettingsWithPrompt(apiKey, prompt) ==
    [SettingsRecord(apiKey) EXCEPT !.system_prompt = prompt]

Request(method, authorization, messages, model) ==
    [ method |-> method,
      headers |-> [authorization |-> authorization],
      url |-> CHAT_PATH,
      body |-> [messages |-> messages, model |-> model, stream |-> FALSE] ]

UserTurn == Msg("user", JStr)
AssistantTurn == Msg("assistant", JStr)
ToolResultTurn == Msg("user", JArr(<<JObj("tool_result")>>))

\* The requests of the concurrency specification: well-formed POSTs for key
\* k1, a new user turn (counted) or a tool result (not counted).
QuotaRequests ==
    { Request("POST", <<"Bearer ", "k1">>, JArr(<<m>>), MODEL_DISPLAY) :
        m \in {UserTurn, ToolResultTurn} }

\* Key k1 as createKey made it on an earlier day or today, after some use.
QuotaStores ==
    { [ k1 |-> KeyRecord(LastDay, limit, date, count),
        __proxy_settings__ |-> SettingsRecord("sk-global") ] :
        limit \in 1..MaxLimit, date \in {0, 1}, count \in 0..MaxLimit }

TypeOK ==
    /\ DOMAIN redis \subseteq RedisKeys
    /\ now \in TicksPerDay..((LastDay + 1) * TicksPerDay - 1)
    /\ \A r \in Reqs :
         handler[r].pc \in { "idle", "auth_get", "auth_set", "incr_get",
                             "incr_reset", "incr_set", "get_settings",
                             "get_profile", "fetch", "relay", "read",
                             "cancel", "done" }

---------------------------------------------------------------------------
(* Spec: concurrent invocations for one key at one instant; any Redis     *)
(* command may fail, the upstream answers.  The key's usage_today is today *)
(* or, not yet reset, yesterday.  With the clock standing still no read    *)
(* of incrementUsage finds a stale date that the authentication read did   *)
(* not already reset, so IncrReset is never enabled here.                  *)

Init ==
    /\ redis \in { s \in QuotaStores :
                     s.k1.usage_today.count <= s.k1.daily_limit }
    /\ now = TicksPerDay
    /\ tz = 0
    /\ env = [API_KEY_GOC |-> ""]
    /\ handler = [r \in Reqs |-> InitLocals]
    /\ admin = AdminIdle

Next ==
    \/ \E r \in Reqs : Begin(r, QuotaRequests)
    \/ \E r \in Reqs :
         \/ AuthGet(r, RedisOutcomes) \/ AuthSet(r, RedisOutcomes)
         \/ IncrGet(r, RedisOutcomes) \/ IncrSet(r, RedisOutcomes)
         \/ GetSettings(r, RedisOutcomes)
         \/ Fetch(r, {[kind |-> "response", status |-> 200]})
         \/ Relay(r)

Spec == Init /\ [][Next]_vars

---------------------------------------------------------------------------
(* SpecDay: invocations one after another while the clock runs over the    *)
(* days, in any time zone, for keys of any expiry date.                    *)

TzOffsets == {-1, 0, 1}

DayStores ==
    { [ k1 |-> KeyRecord(expiry, limit, date, count),
        __proxy_settings__ |-> SettingsRecord("sk-global") ] :
        expiry \in 0..LastDay, limit \in {MaxLimit}, date \in {0, 1},
        count \in 0..MaxLimit }

InitDay ==
    /\ redis \in DayStores
    /\ now = TicksPerDay
    /\ tz \in TzOffsets
    /\ env = [API_KEY_GOC |-> ""]
    /\ handler = [r \in Reqs |-> InitLocals]
    /\ admin = AdminIdle

\* Invocation r arrives when no other invocation is running.
BeginAlone(r, Requests) ==
    /\ \A q \in Reqs \ {r} : handler[q].pc \in {"idle", "done"}
    /\ Begin(r, Requests)

NextDay ==
    \/ \E r \in Reqs : BeginAlone(r, QuotaRequests)
    \/ \E r \in Reqs :
         \/ AuthGet(r, {"ok"}) \/ AuthSet(r, {"ok"})
         \/ IncrGet(r, {"ok"}) \/ IncrReset(r, {"ok"}) \/ IncrSet(r, {"ok"})
         \/ GetSettings(r, {"ok"})
         \/ Fetch(r, {[kind |-> "response", status |-> 200]})
         \/ Relay(r)
    \/ Tick

SpecDay == InitDay /\ [][NextDay]_vars

---------------------------------------------------------------------------
(* SpecClassify: one invocation for a valid key with quota left, over      *)
(* request bodies of every shape the classification distinguishes.         *)

\* Content arrays: empty, text only, tool result only, text then tool
\* result, a null block, a null block after and before a tool result, a
\* bare string as block.
ContentArrays ==
    { <<>>, <<JObj("text")>>, <<JObj("tool_result")>>,
      <<JObj("text"), JObj("tool_result")>>,
      <<JNull>>, <<JObj("tool_result"), JNull>>, <<JNull, JObj("tool_result")>>,
      <<JStr>> }

\* content of a message: a string, null, absent, an object with a type, or
\* without one, an array of blocks.
Contents ==
    {JStr, JNull, JUndefined, JObj("text"), JObj("tool_result"), JObj("")}
        \cup {JArr(blocks) : blocks \in ContentArrays}

\* An entry of messages: a message of either role, or null.
Entries ==
    {Msg(role, content) : role \in {"user", "assistant"}, content \in Contents}
        \cup {JNull}

SeqsUpTo(S, n) == UNION {[1..k -> S] : k \in 0..n}

\* messages: a list of up to MaxMsgs entries, absent, or not a list.
ClassifyRequests ==
    { Request("POST", <<"Bearer ", "k1">>, messages, MODEL_DISPLAY) :
        messages \in {JArr(entries) : entries \in SeqsUpTo(Entries, MaxMsgs)}
                        \cup {JUndefined, JStr} }

InitClassify ==
    /\ redis = [ k1 |-> KeyRecord(LastDay, MaxLimit, 1, 0),
                 __proxy_settings__ |-> SettingsRecord("sk-global") ]
    /\ now = TicksPerDay
    /\ tz = 0
    /\ env = [API_KEY_GOC |-> ""]
    /\ handler = [r \in Reqs |-> InitLocals]
    /\ admin = AdminIdle

NextClassify ==
    \/ Begin(1, ClassifyRequests)
    \/ AuthGet(1, {"ok"}) \/ IncrGet(1, {"ok"}) \/ IncrSet(1, {"ok"})
    \/ GetSettings(1, {"ok"})
    \/ Fetch(1, {[kind |-> "response", status |-> 200]})
    \/ Relay(1)

SpecClassify == InitClassify /\ [][NextClassify]_vars

---------------------------------------------------------------------------
(* SpecPipeline: one invocation, over requests of every method, header,    *)
(* token and model, stores with and without settings, profiles and         *)
(* credentials, keys expired, exhausted, stale or in order; any Redis      *)
(* command may fail and the fetch may settle in any way.                   *)

PROFILE_MODEL == "profile-model"

\* An API profile as saveAPIProfile stores it.
ProfileRecord(isActive, apiKey) ==
    [ id |-> "p1", name |-> "Profile 1",
      api_url |-> P_HOST \o V1, api_key |-> apiKey,
      is_active |-> isActive, model_actual |-> PROFILE_MODEL ]

\* The store holding `value` under `key`, nothing when value is null.
Entry(key, value) ==
    IF value = NULL THEN [k \in {} |-> NULL] ELSE [k \in {key} |-> value]

PipelineKeys ==
    { KeyRecord(expiry, 1, usage[1], usage[2]) @@ profile :
        expiry \in {0, LastDay},
        usage \in {<<1, 0>>, <<1, 1>>, <<0, 1>>},
        profile \in {[k \in {} |-> NULL], [selected_api_profile_id |-> "p1"]} }

PipelineSettings ==
    { NULL, SettingsRecord(""), SettingsRecord("sk-global"),
      SettingsWithPrompt("sk-global", PADDED_PROMPT) }

PipelineProfiles ==
    { NULL, [p1 |-> ProfileRecord(TRUE, "sk-p1")],
      [p1 |-> ProfileRecord(FALSE, "sk-p1")], [p1 |-> ProfileRecord(TRUE, "")] }

PipelineStores ==
    { Entry("k1", key) @@ Entry(SETTINGS_KEY, st) @@ Entry(API_PROFILES_KEY, profiles) :
        key \in PipelineKeys, st \in PipelineSettings,
        profiles \in PipelineProfiles }

\* Authorization: absent, another scheme, Bearer without token, the token
\* of a key, a token nothing is stored under, the name of the settings
\* record.
PipelineHeaders ==
    { <<>>, <<"Basic ", "k1">>, <<"Bearer ">>, <<"Bearer ", "k1">>,
      <<"Bearer ", "k2">>, <<"Bearer ", SETTINGS_KEY>> }

PipelineRequests ==
    { Request(method, authorization, JArr(<<m>>), model) :
        method \in {"POST", "GET", "OPTIONS"},
        authorization \in PipelineHeaders,
        m \in {UserTurn, ToolResultTurn},
        model \in {MODEL_DISPLAY, DEFAULT_MODEL_DISPLAY, "gpt-4"} }

InitPipeline ==
    /\ redis \in PipelineStores
    /\ now = TicksPerDay
    /\ tz = 0
    /\ env \in {[API_KEY_GOC |-> ""], [API_KEY_GOC |-> "sk-env"]}
    /\ handler = [r \in Reqs |-> InitLocals]
    /\ admin = AdminIdle

NextPipeline ==
    \/ Begin(1, PipelineRequests)
    \/ AuthGet(1, RedisOutcomes) \/ AuthSet(1, RedisOutcomes)
    \/ IncrGet(1, RedisOutcomes) \/ IncrSet(1, RedisOutcomes)
    \/ GetSettings(1, RedisOutcomes) \/ GetProfile(1, RedisOutcomes)
    \/ Fetch(1, FetchOutcomes)
    \/ Relay(1)

SpecPipeline == InitPipeline /\ [][NextPipeline]_vars

---------------------------------------------------------------------------
(* SpecMigrate: one invocation for a key whose stored record is of a       *)
(* previous schema; any Redis command may fail.                            *)

LegacyFields == {"max_concurrent_users", "max_activations", "max_ips"}

\* Records of the previous schemas: any of the legacy count fields, with
\* or without expiry, and a record that has daily_limit but no usage_today.
LegacyRecords ==
    { counts @@ expiry :
        counts \in UNION { [F -> 0..MaxLegacy] : F \in SUBSET LegacyFields },
        expiry \in { [k \in {} |-> NULL], [expiry |-> 0], [expiry |-> LastDay] } }
      \cup { [expiry |-> LastDay, daily_limit |-> 7] }

InitMigrate ==
    /\ redis \in { [ k1 |-> raw,
                     __proxy_settings__ |-> SettingsRecord("sk-global") ] :
                     raw \in LegacyRecords }
    /\ now = TicksPerDay
    /\ tz = 0
    /\ env = [API_KEY_GOC |-> ""]
    /\ handler = [r \in Reqs |-> InitLocals]
    /\ admin = AdminIdle

NextMigrate ==
    \/ Begin(1, QuotaRequests)
    \/ AuthGet(1, RedisOutcomes) \/ AuthSet(1, RedisOutcomes)
    \/ IncrGet(1, RedisOutcomes) \/ IncrSet(1, RedisOutcomes)
    \/ GetSettings(1, RedisOutcomes)
    \/ Fetch(1, {[kind |-> "response", status |-> 200]})
    \/ Relay(1)

SpecMigrate == InitMigrate /\ [][NextMigrate]_vars

---------------------------------------------------------------------------
(* SpecRoute: one invocation for a valid key with quota left, over every   *)
(* configuration of settings, environment, selected profile and profile    *)
(* table, and requests naming various models; the Redis commands succeed   *)
(* and the fetch may settle in any way.                                    *)

\* The key selects no profile, profile p1, or a profile that is not in the
\* table.
RouteKeys ==
    { KeyRecord(LastDay, 1, 1, 0) @@ profile :
        profile \in { [k \in {} |-> NULL], [selected_api_profile_id |-> "p1"],
                      [selected_api_profile_id |-> "gone"] } }

\* No settings, settings without a key, with a key, with model_actual equal
\* to model_display, and a record with nothing but url and key.
RouteSettings ==
    { NULL, SettingsRecord(""), SettingsRecord("sk-global"),
      [SettingsRecord("sk-global") EXCEPT !.model_actual = MODEL_DISPLAY],
      [api_url |-> U_HOST \o V1, api_key |-> "sk-global"] }

\* A profile without the optional model_actual.
WithoutModel(profile) ==
    [f \in DOMAIN profile \ {"model_actual"} |-> profile[f]]

RouteProfiles ==
    { NULL, [p1 |-> ProfileRecord(TRUE, "sk-p1")],
      [p1 |-> WithoutModel(ProfileRecord(TRUE, "sk-p1"))],
      [p1 |-> ProfileRecord(FALSE, "sk-p1")],
      [p1 |-> ProfileRecord(TRUE, "")] }

RouteRequests ==
    { Request("POST", <<"Bearer ", "k1">>, JArr(<<m>>), model) :
        m \in {UserTurn, ToolResultTurn},
        model \in {MODEL_DISPLAY, DEFAULT_MODEL_DISPLAY, "public-model",
                   MODEL_ACTUAL} }

InitRoute ==
    /\ redis \in { Entry("k1", key) @@ Entry(SETTINGS_KEY, st)
                       @@ Entry(API_PROFILES_KEY, profiles) :
                     key \in RouteKeys, st \in RouteSettings,
                     profiles \in RouteProfiles }
    /\ now = TicksPerDay
    /\ tz = 0
    /\ env \in {[API_KEY_GOC |-> ""], [API_KEY_GOC |-> "sk-env"]}
    /\ handler = [r \in Reqs |-> InitLocals]
    /\ admin = AdminIdle

NextRoute ==
    \/ Begin(1, RouteRequests)
    \/ AuthGet(1, {"ok"}) \/ IncrGet(1, {"ok"}) \/ IncrSet(1, {"ok"})
    \/ GetSettings(1, {"ok"}) \/ GetProfile(1, {"ok"})
    \/ Fetch(1, FetchOutcomes)
    \/ Relay(1)

SpecRoute == InitRoute /\ [][NextRoute]_vars

---------------------------------------------------------------------------
(* The specification of URL construction: one request that is not counted,
   for a valid key, over the base URLs of the settings and the paths of the
   request line *)

MaxSuffix == 3     \* characters of a base URL after its host
MaxTail == 3       \* characters of a request path after its leading slash

\* "/v1/messages"
MESSAGES_PATH == V1 \o MESSAGES

\* Base URLs an administrator saved: a host, then up to MaxSuffix characters
\* of path; and the versioned base with a trailing slash.
UrlBases ==
    {U_HOST \o suffix : suffix \in SeqsUpTo({"/", "v", "1"}, MaxSuffix)}
        \cup {U_HOST \o V1 \o SLASH}

\* req.url: a slash, then up to MaxTail characters of path and query; and
\* the two paths clients of the proxy use.
UrlPaths ==
    {SLASH \o tail : tail \in SeqsUpTo({"/", "v", "1", "0", "?"}, MaxTail)}
        \cup {CHAT_PATH, MESSAGES_PATH}

UrlRequests ==
    { [Request("POST", <<"Bearer ", "k1">>, JArr(<<ToolResultTurn>>),
               MODEL_DISPLAY) EXCEPT !.url = path] : path \in UrlPaths }

InitUrl ==
    /\ redis \in { Entry("k1", KeyRecord(LastDay, 1, 1, 0))
                       @@ Entry(SETTINGS_KEY,
                                [SettingsRecord("sk-global")
                                     EXCEPT !.api_url = base]) :
                     base \in UrlBases }
    /\ now = TicksPerDay
    /\ tz = 0
    /\ env = [API_KEY_GOC |-> ""]
    /\ handler = [r \in Reqs |-> InitLocals]
    /\ admin = AdminIdle

NextUrl ==
    \/ Begin(1, UrlRequests)
    \/ AuthGet(1, {"ok"})
    \/ GetSettings(1, {"ok"})
    \/ Fetch(1, FetchOutcomes)
    \/ Relay(1)

SpecUrl == InitUrl /\ [][NextUrl]_vars

---------------------------------------------------------------------------
(* The specification of the relay: one request that is not counted, for a
   valid key, streaming or not; the upstream answers in chunks that cut its
   body anywhere, and the client may go away at any moment *)

\* An upstream body that names the model: "upstream-model", in its quotes.
STREAM_BODY == <<"\"">> \o Spell(MODEL_ACTUAL) \o <<"\"">>

\* The chunks of the body cut in two at any place, and the whole body.
StreamChunks ==
    {SubSeq(STREAM_BODY, 1, k) : k \in 1..Len(STREAM_BODY)}
        \cup {SubSeq(STREAM_BODY, k, Len(STREAM_BODY)) : k \in 2..Len(STREAM_BODY)}

\* JSON texts of a buffered body: the same, and one that names a model
\* family.
JsonTexts == {STREAM_BODY, <<"\"">> \o HAIKU \o <<"\"">>}

StreamRequests ==
    { [Request("POST", <<"Bearer ", "k1">>, JArr(<<ToolResultTurn>>),
               MODEL_DISPLAY) EXCEPT !.body.stream = stream] :
        stream \in BOOLEAN }

InitStream ==
    /\ redis = Entry("k1", KeyRecord(LastDay, 1, 1, 0))
                   @@ Entry(SETTINGS_KEY, SettingsRecord("sk-global"))
    /\ now = TicksPerDay
    /\ tz = 0
    /\ env = [API_KEY_GOC |-> ""]
    /\ handler = [r \in Reqs |-> InitLocals]
    /\ admin = AdminIdle

NextStream ==
    \/ Begin(1, StreamRequests)
    \/ AuthGet(1, {"ok"})
    \/ GetSettings(1, {"ok"})
    \/ Fetch(1, FetchOutcomes)
    \/ Read(1, ReadOutcomes(StreamChunks))
    \/ Cancel(1)
    \/ ReadJson(1, JsonOutcomes(JsonTexts))
    \/ ClientClose(1)

SpecStream == InitStream /\ [][NextStream]_vars

---------------------------------------------------------------------------
(* The relay under fair scheduling.  The store answers; the fetch settles,
   by the 120 s timer of line 355 at the latest; reader.cancel() resolves.
   Nothing makes the upstream send a chunk, end its body or complete the
   buffered body, and no timer is left once the fetch has resolved (line
   385), so Read and ReadJson are not fair. *)

Fairness ==
    /\ WF_vars(AuthGet(1, {"ok"}))
    /\ WF_vars(GetSettings(1, {"ok"}))
    /\ WF_vars(Fetch(1, FetchOutcomes))
    /\ WF_vars(Cancel(1))

SpecLive == InitStream /\ [][NextStream]_vars /\ Fairness

---------------------------------------------------------------------------
(* The specification of failure: one counted request, streaming or not, for
   a key with or without a selected profile, in an environment where every
   Redis command, the fetch, every read of the stream and the read of the
   buffered body may fail, and the client may go away *)

FailKeys ==
    { KeyRecord(LastDay, 1, date, 0) @@ profile :
        date \in {0, 1},
        profile \in {[k \in {} |-> NULL], [selected_api_profile_id |-> "p1"]} }

FailRequests ==
    { [Request("POST", <<"Bearer ", "k1">>, JArr(<<UserTurn>>),
               MODEL_DISPLAY) EXCEPT !.body.stream = stream] :
        stream \in BOOLEAN }

InitFail ==
    /\ redis \in { Entry("k1", key)
                       @@ Entry(SETTINGS_KEY, SettingsRecord("sk-global"))
                       @@ Entry(API_PROFILES_KEY,
                                [p1 |-> ProfileRecord(TRUE, "sk-p1")]) :
                     key \in FailKeys }
    /\ now = TicksPerDay
    /\ tz = 0
    /\ env = [API_KEY_GOC |-> ""]
    /\ handler = [r \in Reqs |-> InitLocals]
    /\ admin = AdminIdle

NextFail ==
    \/ Begin(1, FailRequests)
    \/ AuthGet(1, RedisOutcomes) \/ AuthSet(1, RedisOutcomes)
    \/ IncrGet(1, RedisOutcomes) \/ IncrSet(1, RedisOutcomes)
    \/ GetSettings(1, RedisOutcomes) \/ GetProfile(1, RedisOutcomes)
    \/ Fetch(1, FetchOutcomes)
    \/ Read(1, ReadOutcomes({STREAM_BODY}))
    \/ Cancel(1)
    \/ ReadJson(1, JsonOutcomes({STREAM_BODY}))
    \/ ClientClose(1)

SpecFail == InitFail /\ [][NextFail]_vars

---------------------------------------------------------------------------
(* The specification of prompt injection: one request that is not counted,
   for a valid key with or without a selected model, over the prompts of the
   settings and of the model configuration, in both dialects *)

\* "Be exact.", the prompt of a model configuration, and "Be rude.", the
\* system text of a client.
MODEL_PROMPT == <<"B", "e", " ", "e", "x", "a", "c", "t", ".">>
CLIENT_TEXT == <<"B", "e", " ", "r", "u", "d", "e", ".">>

\* A prompt of one character more than the limit after its trim.
LONG_PROMPT ==
    [i \in 1..(MAX_SYSTEM_PROMPT_LENGTH + 2) |-> IF i = 1 THEN " " ELSE "a"]

\* Key records: no selected model, the configured one, one that is not
\* configured.
PromptKeys ==
    { KeyRecord(LastDay, 1, 1, 0) @@ selected :
        selected \in { [k \in {} |-> NULL], [selected_model |-> "gemini"],
                       [selected_model |-> "gone"] } }

\* settings.models: absent, or a configuration for "gemini" with a prompt,
\* an empty one, a blank one or none.
PromptModels ==
    { [k \in {} |-> NULL], [models |-> [gemini |-> [name |-> "Gemini"]]] }
        \cup { [models |-> [gemini |-> [name |-> "Gemini", system_prompt |-> p]]] :
                 p \in {<<>>, MODEL_PROMPT, BLANK_PROMPT} }

PromptSettings ==
    { SettingsWithPrompt("sk-global", p) @@ models :
        p \in {<<>>, PROMPT, PADDED_PROMPT, BLANK_PROMPT, LONG_PROMPT},
        models \in PromptModels }

ClientSystemTurn == Msg("system", JText(CLIENT_TEXT))

\* messages: without a system entry, with one in front, with one in the
\* middle, and absent.
PromptMessages ==
    { JArr(<<ToolResultTurn>>),
      JArr(<<ClientSystemTurn, ToolResultTurn>>),
      JArr(<<AssistantTurn, ClientSystemTurn, ToolResultTurn>>),
      JUndefined }

PromptRequests ==
    { [Request("POST", <<"Bearer ", "k1">>, messages, MODEL_DISPLAY)
           EXCEPT !.url = path, !.body = @ @@ system] :
        messages \in PromptMessages,
        path \in {CHAT_PATH, MESSAGES_PATH},
        system \in {[k \in {} |-> NULL], [system |-> JText(CLIENT_TEXT)]} }

InitPrompt ==
    /\ redis \in { Entry("k1", key) @@ Entry(SETTINGS_KEY, st) :
                     key \in PromptKeys, st \in PromptSettings }
    /\ now = TicksPerDay
    /\ tz = 0
    /\ env = [API_KEY_GOC |-> ""]
    /\ handler = [r \in Reqs |-> InitLocals]
    /\ admin = AdminIdle

NextPrompt ==
    \/ Begin(1, PromptRequests)
    \/ AuthGet(1, {"ok"})
    \/ GetSettings(1, {"ok"})
    \/ Fetch(1, FetchOutcomes)
    \/ Relay(1)

SpecPrompt == InitPrompt /\ [][NextPrompt]_vars

---------------------------------------------------------------------------
(* SpecRelay: one buffered (non-streaming) invocation, for settings whose  *)
(* display name is free of the marketing phrases or holds one of them, and *)
(* upstream bodies that carry the actual model id and each phrase.         *)

\* A display name an administrator can save (saveSettings stores any
\* non-empty string) that holds the phrase "Sonnet".
SONNET_DISPLAY == "Sonnet-VIP"

Quoted(text) == <<"\"">> \o text \o <<"\"">>

\* JSON.stringify(data) for replies that are one string.
RelayTexts ==
    { Quoted(phrase) :
        phrase \in { Spell(MODEL_ACTUAL), CLAUDE_CODE, CLAUDE_3_5_HAIKU,
                     HAIKU, SONNET, SONNET_4_5, OPUS, <<"o", "k">>,
                     Spell(MODEL_DISPLAY), HAIKU \o <<" ">> \o SONNET,
                     CLAUDE_CODE \o <<" ">> \o Spell(MODEL_ACTUAL),
                     Spell(MODEL_ACTUAL) \o <<" ">> \o CLAUDE_3_5_HAIKU } }

RelaySettings ==
    { [SettingsRecord("sk-global") EXCEPT !.model_display = display] :
        display \in {MODEL_DISPLAY, SONNET_DISPLAY} }

RelayRequests ==
    { [Request("POST", <<"Bearer ", "k1">>, JArr(<<m>>), model)
          EXCEPT !.url = path] :
        m \in {UserTurn, ToolResultTurn},
        model \in {MODEL_DISPLAY, SONNET_DISPLAY},
        path \in {CHAT_PATH, MESSAGES_PATH} }

InitRelay ==
    /\ \E settings \in RelaySettings :
         redis = Entry("k1", KeyRecord(LastDay, 1, 1, 0))
                     @@ Entry(SETTINGS_KEY, settings)
    /\ now = TicksPerDay
    /\ tz = 0
    /\ env = [API_KEY_GOC |-> ""]
    /\ handler = [r \in Reqs |-> InitLocals]
    /\ admin = AdminIdle

NextRelay ==
    \/ Begin(1, RelayRequests)
    \/ AuthGet(1, {"ok"})
    \/ IncrGet(1, {"ok"}) \/ IncrSet(1, {"ok"})
    \/ GetSettings(1, {"ok"})
    \/ Fetch(1, FetchOutcomes)
    \/ ReadJson(1, JsonOutcomes(RelayTexts))

SpecRelay == InitRelay /\ [][NextRelay]_vars

---------------------------------------------------------------------------
(* SpecAdmin: one proxy invocation for key k1 while the administrator      *)
(* selects a model or a profile for k1, deletes k1 and creates it again.   *)

AdminKeys == { KeyRecord(LastDay, MaxLimit, date, 0) : date \in {0, 1} }

AdminStores ==
    { Entry("k1", key) @@ Entry(SETTINGS_KEY, SettingsRecord("sk-global"))
          @@ Entry(API_PROFILES_KEY, profiles) :
        key \in AdminKeys,
        profiles \in {NULL, [p1 |-> ProfileRecord(TRUE, "sk-p1")]} }

\* The calls of the administrator: a model or a profile selected or
\* cleared; p2 is the id of no profile.
AdminCalls ==
    { AdminCall("setKeySelectedModel", "k1", arg) : arg \in {NULL, Id("gemini")} }
        \cup { AdminCall("setKeySelectedProfile", "k1", arg) :
                 arg \in {NULL, Id("p1"), Id("p2")} }

InitAdmin ==
    /\ redis \in AdminStores
    /\ now = TicksPerDay
    /\ tz = 0
    /\ env = [API_KEY_GOC |-> ""]
    /\ handler = [r \in Reqs |-> InitLocals]
    /\ admin = AdminIdle

NextAdmin ==
    \/ Begin(1, QuotaRequests)
    \/ AuthGet(1, {"ok"}) \/ AuthSet(1, {"ok"})
    \/ IncrGet(1, {"ok"}) \/ IncrSet(1, {"ok"})
    \/ GetSettings(1, {"ok"}) \/ GetProfile(1, {"ok"})
    \/ Fetch(1, {[kind |-> "response", status |-> 200]})
    \/ Relay(1)
    \/ AdminBegin(AdminCalls)
    \/ AdminKeyGet(RedisOutcomes) \/ AdminKeyReset(RedisOutcomes)
    \/ AdminProfileGet(RedisOutcomes) \/ AdminKeySet(RedisOutcomes)
    \/ DeleteKey("k1", RedisOutcomes)
    \/ CreateKey("k1", LastDay, MaxLimit, RedisOutcomes)

SpecAdmin == InitAdmin /\ [][NextAdmin]_vars

---------------------------------------------------------------------------
(* SpecSelect: one proxy invocation for key k1 while the administrator     *)
(* selects a model or a profile for k1; the key is neither deleted nor     *)
(* created anew.                                                           *)

NextSelect ==
    \/ Begin(1, QuotaRequests)
    \/ AuthGet(1, {"ok"}) \/ AuthSet(1, {"ok"})
    \/ IncrGet(1, {"ok"}) \/ IncrSet(1, {"ok"})
    \/ GetSettings(1, {"ok"}) \/ GetProfile(1, {"ok"})
    \/ Fetch(1, {[kind |-> "response", status |-> 200]})
    \/ Relay(1)
    \/ AdminBegin(AdminCalls)
    \/ AdminKeyGet(RedisOutcomes) \/ AdminKeyReset(RedisOutcomes)
    \/ AdminProfileGet(RedisOutcomes) \/ AdminKeySet(RedisOutcomes)

SpecSelect == InitAdmin /\ [][NextSelect]_vars

---------------------------------------------------------------------------
(* SpecTimer: SpecStream with the 120 s timer as a step of its own.        *)

NextTimer ==
    \/ Begin(1, StreamRequests)
    \/ AuthGet(1, {"ok"})
    \/ GetSettings(1, {"ok"})
    \/ Fetch(1, FetchOutcomes)
    \/ TimerFire(1)
    \/ Read(1, ReadOutcomes(StreamChunks))
    \/ Cancel(1)
    \/ ReadJson(1, JsonOutcomes(JsonTexts))
    \/ ClientClose(1)

SpecTimer == InitStream /\ [][NextTimer]_vars

---------------------------------------------------------------------------
(* SpecSave: the settings-save handler, called again and again with any    *)
(* method, token and body, on a store that holds no settings, settings     *)
(* without a models table, or settings with a prompt and a models table.   *)

NEW_DISPLAY == "New-Model"

SaveStores ==
    { Entry(SETTINGS_KEY, st) :
        st \in { NULL, SettingsRecord("sk-global"),
                 SettingsWithPrompt("sk-global", PROMPT)
                     @@ [models |-> [gemini |-> [name |-> "Gemini"]]] } }

\* A field of the body: absent, or one of the values.
Field(f, values) ==
    {[k \in {} |-> NULL]} \cup {[k \in {f} |-> v] : v \in values}

\* api_url: empty, well-formed, without a scheme, not a string.
SaveBodies ==
    {NULL} \cup
    { url @@ key @@ display @@ prompt :
        url \in Field("api_url", { JText(<<>>), JText(P_HOST \o V1),
                                   JText(<<"p", ".", "e">>), [t |-> "number"] }),
        key \in Field("api_key", {JText(""), JText("sk-new")}),
        display \in Field("model_display", {JText(""), JText(NEW_DISPLAY)}),
        prompt \in Field("system_prompt", {JText(<<>>), JText(MODEL_PROMPT)}) }

\* A body the handler accepts.
SaveBody ==
    [api_url |-> JText(P_HOST \o V1), api_key |-> JText("sk-new")]

SaveRequest(method, authorization, body) ==
    [ method |-> method, headers |-> [authorization |-> authorization],
      body |-> body ]

\* Every body from the administrator, and a body the handler accepts sent
\* with another method, without a token or with a token nobody issued.
SaveRequests ==
    { SaveRequest("POST", <<"Bearer ", ISSUED_TOKEN>>, body) :
        body \in SaveBodies }
        \cup { SaveRequest(method, authorization, SaveBody) :
                 method \in {"POST", "GET"},
                 authorization \in { <<>>, <<"Bearer ", ISSUED_TOKEN>>,
                                     <<"Bearer ", "forged">>,
                                     <<"Basic ", ISSUED_TOKEN>> } }

InitSave ==
    /\ redis \in SaveStores
    /\ now = TicksPerDay
    /\ tz = 0
    /\ env = [API_KEY_GOC |-> ""]
    /\ handler = [r \in Reqs |-> InitLocals]
    /\ admin = AdminIdle

NextSave ==
    \/ SaveBegin(SaveRequests)
    \/ SaveGet(RedisOutcomes)
    \/ SaveSet(RedisOutcomes)

SpecSave == InitSave /\ [][NextSave]_vars

---------------------------------------------------------------------------
(* SpecProfile: calls of setKeySelectedProfile for key k1, one after       *)
(* another, on a store where k1 and the profile p1 exist or not.           *)

ProfileKeys ==
    { KeyRecord(LastDay, MaxLimit, date, count) @@ selection :
        date \in {0, 1}, count \in {0, 1},
        selection \in { [k \in {} |-> NULL],
                        [selected_api_profile_id |-> "p1"] } }

ProfileStores ==
    { Entry("k1", key) @@ Entry(API_PROFILES_KEY, profiles) :
        key \in {NULL} \cup ProfileKeys,
        profiles \in {NULL, [p1 |-> ProfileRecord(TRUE, "sk-p1")]} }

ProfileCalls ==
    { AdminCall("setKeySelectedProfile", "k1", arg) :
        arg \in {NULL, Id("p1"), Id("p2")} }

InitProfile ==
    /\ redis \in ProfileStores
    /\ now = TicksPerDay
    /\ tz = 0
    /\ env = [API_KEY_GOC |-> ""]
    /\ handler = [r \in Reqs |-> InitLocals]
    /\ admin = AdminIdle

NextProfile ==
    \/ AdminBegin(ProfileCalls)
    \/ AdminKeyGet(RedisOutcomes) \/ AdminKeyReset(RedisOutcomes)
    \/ AdminProfileGet(RedisOutcomes) \/ AdminKeySet(RedisOutcomes)

SpecProfile == InitProfile /\ [][NextProfile]_vars

---------------------------------------------------------------------------
(* Vocabulary of the properties *)

\* Invocation r takes a step.
Moves(r) == handler'[r] # handler[r]

\* The stored record of key k1 and its usage.
Stored == redis["k1"]
StoredIsToday == Stored.usage_today.date = Today(now)

\* Invocation r has passed the quota stage as a counted request:
\* incrementUsage returned allowed = true.
Counted(r) ==
    /\ handler[r].hasNewUserMessage
    /\ handler[r].pc \in {"get_settings", "get_profile", "fetch", "relay", "done"}
    /\ handler[r].usageResult # NULL
    /\ handler[r].usageResult.allowed

\* Invocation r was answered 429 by the quota stage for the given reason.
Rejected429(r, reason) ==
    /\ handler[r].pc = "done"
    /\ handler[r].res.statusCode = 429
    /\ handler[r].usageResult.reason = reason

---------------------------------------------------------------------------
(* C1 *)

\* C1: N concurrent counted requests against a record with
\* daily_limit - count = k admit exactly k; in particular two requests that
\* both observed count = daily_limit - 1 (so both return currentUsage =
\* daily_limit) are never both admitted.
C1_NeverBothAdmitted ==
    \A r1, r2 \in Reqs :
        (r1 # r2 /\ Counted(r1) /\ Counted(r2))
            => ~ ( /\ handler[r1].usageResult.currentUsage = handler[r1].usageResult.limit
                   /\ handler[r2].usageResult.currentUsage = handler[r2].usageResult.limit )

---------------------------------------------------------------------------
(* C2 *)

\* C2: in every reachable state the stored usage_today.count of the key is
\* at most its daily_limit.
C2_CountWithinLimit ==
    Stored.usage_today.count <= Stored.daily_limit

\* A counted request was admitted and the stored count stands at the limit.
C2_Witness ==
    /\ \E r \in Reqs : Counted(r)
    /\ Stored.usage_today.count = Stored.daily_limit

---------------------------------------------------------------------------
(* C3 *)

\* C3: when the quota-stage read of a counted request finds the key's record
\* dated today with count >= daily_limit, the request is answered 429, the
\* stored record stays as it was and no upstream call is made; unless that
\* read itself failed, the answer carries current_usage = the stored count
\* and daily_limit = the stored limit.
C3_AtLimitStep(r) ==
    (/\ handler[r].pc = "incr_get"
     /\ Moves(r)
     /\ StoredIsToday
     /\ Stored.usage_today.count >= Stored.daily_limit)
        => /\ handler'[r].pc = "done"
           /\ handler'[r].res.statusCode = 429
           /\ handler'[r].fetches = 0
           /\ redis' = redis
           /\ handler'[r].usageResult.reason # "invalid_key"
                => /\ handler'[r].res.body.current_usage = Stored.usage_today.count
                   /\ handler'[r].res.body.daily_limit = Stored.daily_limit

C3_RejectedAtLimit == [][\A r \in Reqs : C3_AtLimitStep(r)]_vars

\* A request was answered 429 with current_usage = daily_limit = the stored
\* count, which did not move.
C3_Witness ==
    \E r \in Reqs :
        /\ Rejected429(r, "daily_limit_reached")
        /\ handler[r].res.body.current_usage = Stored.usage_today.count
        /\ handler[r].res.body.daily_limit = Stored.daily_limit
        /\ handler[r].res.body.current_usage >= handler[r].res.body.daily_limit
        /\ handler[r].fetches = 0

---------------------------------------------------------------------------
(* C4 *)

\* C4: a counted request whose re-fetched record has count < daily_limit
\* writes that record back with count + 1 and every other field as fetched,
\* and moves on to the later stages only by that write; the decision is
\* taken on the record fetched at the quota stage, whatever the snapshot of
\* the authentication read says.  When nothing else wrote the key between
\* the fetch and the write (the request ran alone), the stored count grows
\* by exactly 1.
C4_QuotaStep(r) ==
    /\ (handler[r].pc = "incr_get" /\ handler'[r].pc = "incr_set")
          => /\ Stored.usage_today.count < Stored.daily_limit
             /\ handler'[r].data =
                  [Stored EXCEPT !.usage_today.count = Stored.usage_today.count + 1]
    /\ (handler[r].pc = "incr_get" /\ handler'[r].pc = "done"
            /\ handler'[r].usageResult.reason = "daily_limit_reached")
          => Stored.usage_today.count >= Stored.daily_limit
    /\ (handler[r].pc = "incr_set" /\ handler'[r].pc # "incr_set"
            /\ handler'[r].res.statusCode # 429)
          => /\ handler'[r].pc = "get_settings"
             /\ redis' = [redis EXCEPT !["k1"] = handler[r].data]
             /\ (Stored.usage_today.count + 1 = handler[r].data.usage_today.count
                    /\ [Stored EXCEPT !.usage_today = handler[r].data.usage_today]
                          = handler[r].data)
                  => redis'["k1"] =
                       [Stored EXCEPT !.usage_today.count = Stored.usage_today.count + 1]
    /\ (handler'[r].hasNewUserMessage /\ handler'[r].pc = "get_settings" /\ Moves(r))
          => handler[r].pc = "incr_set"

C4_IncrementByOne == [][\A r \in Reqs : C4_QuotaStep(r)]_vars

\* A counted request was admitted on the re-fetched record although its
\* authentication snapshot showed another count, and its write stands.
C4_Witness ==
    \E r \in Reqs :
        /\ handler[r].pc = "get_settings"
        /\ Counted(r)
        /\ handler[r].keyData.usage_today.date = Stored.usage_today.date
        /\ handler[r].keyData.usage_today.count + 1 # handler[r].usageResult.currentUsage
        /\ Stored.usage_today.count = handler[r].usageResult.currentUsage

---------------------------------------------------------------------------
(* C5 *)

\* C5: a read of the key's record (at the authentication stage or at the
\* quota stage) that finds usage_today.date other than today sets
\* usage_today to {today, 0}, leaves the other fields, and the invocation's
\* next step persists that record before any comparison with the limit is
\* made; after a reset at the quota stage the request is judged against
\* count 0 and admitted.  A 429 is only ever the result of comparing a count
\* stored under today's date.
C5_ResetStep(r) ==
    /\ (handler[r].pc \in {"auth_get", "incr_get"} /\ Moves(r) /\ ~StoredIsToday)
          => /\ handler'[r].pc =
                  (IF handler[r].pc = "auth_get" THEN "auth_set" ELSE "incr_reset")
             /\ handler'[r].data =
                  [Stored EXCEPT !.usage_today = [date |-> Today(now), count |-> 0]]
    /\ (handler[r].pc \in {"auth_set", "incr_reset"} /\ Moves(r))
          => /\ redis' = [redis EXCEPT !["k1"] = handler[r].data]
             /\ handler[r].data.usage_today.count = 0
             /\ handler'[r].res.statusCode # 429
    /\ (handler[r].pc = "incr_reset" /\ Moves(r))
          => /\ handler'[r].pc = "incr_set"
             /\ handler'[r].data.usage_today.count = 1
    /\ (handler'[r].res.statusCode = 429 /\ Moves(r))
          => /\ handler[r].pc = "incr_get"
             /\ StoredIsToday
             /\ handler'[r].res.body.current_usage = Stored.usage_today.count

C5_LazyReset == [][\A r \in Reqs : C5_ResetStep(r)]_vars

\* One request was rejected at the limit, and a later one, on a later day,
\* was admitted as the first of its day.
C5_Witness ==
    \E r1, r2 \in Reqs :
        /\ r1 < r2
        /\ Rejected429(r1, "daily_limit_reached")
        /\ handler[r1].res.body.current_usage = MaxLimit
        /\ Counted(r2)
        /\ handler[r2].usageResult.currentUsage = 1
        /\ Stored.usage_today = [date |-> Today(now), count |-> 1]
        /\ Today(now) > Today(TicksPerDay)

---------------------------------------------------------------------------
(* C6 *)

\* The entries of messages when it is a non-empty list, <<>> otherwise.
C6_Entries(body) ==
    IF body.messages.t = "array" THEN body.messages.v ELSE <<>>

C6_IsToolResult(v) == v.t = "object" /\ v.type = "tool_result"

\* Position of the first tool_result block of a content array, Len + 1 when
\* there is none.
C6_FirstToolResult(blocks) ==
    IF \E i \in 1..Len(blocks) : C6_IsToolResult(blocks[i])
    THEN CHOOSE i \in 1..Len(blocks) :
            /\ C6_IsToolResult(blocks[i])
            /\ \A j \in 1..(i - 1) : ~C6_IsToolResult(blocks[j])
    ELSE Len(blocks) + 1

\* A null block stands before every tool_result block of the array.
C6_NullBlockFirst(blocks) ==
    \E i \in 1..Len(blocks) :
        blocks[i].t \in {"null", "undefined"} /\ i < C6_FirstToolResult(blocks)

\* The last entry is a message of role user.
C6_LastIsUserTurn(body) ==
    LET entries == C6_Entries(body) IN
    /\ Len(entries) > 0
    /\ entries[Len(entries)].t = "object"
    /\ entries[Len(entries)].role = "user"

C6_LastContent(body) == C6_Entries(body)[Len(C6_Entries(body))].content

\* Countable as C6 states it: content is a string, an array with no
\* tool_result block, or a single object whose type is not tool_result.
C6_StatedCountable(body) ==
    /\ C6_LastIsUserTurn(body)
    /\ LET content == C6_LastContent(body) IN
       \/ content.t = "string"
       \/ content.t = "array"
            /\ \A i \in 1..Len(content.v) : ~C6_IsToolResult(content.v[i])
       \/ content.t = "object" /\ content.type # "tool_result"

\* Classification fails: content is an array with a null block before any
\* tool_result block.
C6_Fails(body) ==
    /\ C6_LastIsUserTurn(body)
    /\ C6_LastContent(body).t = "array"
    /\ C6_NullBlockFirst(C6_LastContent(body).v)

\* Countable as the code has it: content is a string, an array with no
\* tool_result block and no null block, or anything else (absent and null
\* included) that is not an object of type tool_result.
C6_ActualCountable(body) ==
    /\ C6_LastIsUserTurn(body)
    /\ LET content == C6_LastContent(body) IN
       \/ content.t = "string"
       \/ content.t = "array"
            /\ \A i \in 1..Len(content.v) :
                  ~C6_IsToolResult(content.v[i])
                  /\ content.v[i].t \notin {"null", "undefined"}
       \/ content.t \notin {"string", "array"} /\ ~C6_IsToolResult(content)

\* Invocation r has just classified its request.
C6_Classified(r) == handler[r].pc \in {"incr_get", "get_settings"}

\* C6 as stated: a request is classified countable exactly when its last
\* message has role user and content that is a string, an array without
\* tool_result block, or an object of a type other than tool_result.
C6_Original ==
    \A r \in Reqs :
        /\ C6_Classified(r)
              => (handler[r].hasNewUserMessage
                      <=> C6_StatedCountable(handler[r].req.body))
        /\ (handler[r].pc = "done" /\ C6_StatedCountable(handler[r].req.body))
              => handler[r].hasNewUserMessage

\* C6 amended: a valid, unexpired request reaches the quota stage exactly
\* when its last message has role user and content that is a string, an
\* array with neither a tool_result block nor a null block, or any other
\* value, absent and null included, that is not an object of type
\* tool_result; every other request goes on uncounted, except that a content
\* array with a null block before any tool_result block ends the request
\* with 500, uncounted and without a write or an upstream call.  Only the
\* last entry of messages is looked at.
C6_Classification ==
    \A r \in Reqs :
        /\ C6_Classified(r)
              => /\ handler[r].hasNewUserMessage
                        <=> C6_ActualCountable(handler[r].req.body)
                 /\ handler[r].pc = "incr_get" => handler[r].hasNewUserMessage
                 /\ handler[r].redisSets > 0 => handler[r].hasNewUserMessage
                 /\ ~C6_Fails(handler[r].req.body)
        /\ (handler[r].pc = "done" /\ C6_Fails(handler[r].req.body))
              => /\ handler[r].res.statusCode = 500
                 /\ ~handler[r].hasNewUserMessage
                 /\ handler[r].redisSets = 0
                 /\ handler[r].fetches = 0
        /\ (handler[r].pc = "done" /\ ~C6_Fails(handler[r].req.body))
              => /\ handler[r].res.statusCode = 200
                 /\ handler[r].hasNewUserMessage
                        <=> C6_ActualCountable(handler[r].req.body)

\* A request whose last message is a user turn with null content is at the
\* quota stage, behind an earlier tool-result turn.
C6_Witness ==
    \E r \in Reqs :
        /\ handler[r].pc = "incr_get"
        /\ handler[r].hasNewUserMessage
        /\ handler[r].req.body.messages = JArr(<<ToolResultTurn, Msg("user", JNull)>>)

---------------------------------------------------------------------------
(* C7 *)

\* The last message is an assistant turn or a tool result.
C7_NotCountable(r) ==
    /\ handler[r].req # NULL
    /\ LastMessage(handler[r].req.body) \in {AssistantTurn, ToolResultTurn}

\* C7 as stated: no step of a request that is not counted changes the stored
\* usage_today, and the request is never answered 429.
C7_OriginalStep(r) ==
    (C7_NotCountable(r) /\ Moves(r))
        => /\ redis'["k1"].usage_today = Stored.usage_today
           /\ handler'[r].res.statusCode # 429

C7_Original == [][\A r \in Reqs : C7_OriginalStep(r)]_vars

\* C7 amended: a request that is not counted never increments the count and
\* is never answered 429.  The only write it makes to the key's record is
\* the lazy reset of the authentication read, which happens only when the
\* stored date is not today and stores usage_today = {today, 0}; with the
\* stored date already today it leaves the record as it is.
C7_AmendedStep(r) ==
    (C7_NotCountable(r) /\ Moves(r))
        => /\ handler'[r].res.statusCode # 429
           /\ \/ redis' = redis
              \/ /\ handler[r].pc = "auth_set"
                 /\ redis' = [redis EXCEPT !["k1"] = handler[r].data]
                 /\ handler[r].data.usage_today = [date |-> Today(now), count |-> 0]
           /\ (handler[r].pc = "auth_get" /\ StoredIsToday)
                => handler'[r].pc # "auth_set"

C7_NoQuotaUse == [][\A r \in Reqs : C7_AmendedStep(r)]_vars

\* A request that is not counted went through to the upstream while the key
\* stood at its limit, and the stored usage is unchanged.
C7_Witness ==
    \E r \in Reqs :
        /\ C7_NotCountable(r)
        /\ handler[r].pc = "done"
        /\ handler[r].res.statusCode = 200
        /\ handler[r].fetches = 1
        /\ StoredIsToday
        /\ Stored.usage_today.count >= Stored.daily_limit
---------------------------------------------------------------------------
(* C8 *)

C8_Expired(kd) == Has(kd, "expiry") /\ Today(now) > kd.expiry

\* The response is a rejection of one of the stages before the upstream
\* call.
C8_StageRejection(res) ==
    \/ res.statusCode \in {400, 401, 403, 405}
    \/ res.statusCode = 429 /\ res.body.error = "Daily limit reached"
    \/ res.statusCode = 500 /\ res.body.error = "API Key not configured"

\* The configured prompt, when there is one, is in the body.
C8_Injected(l) ==
    l.systemPrompt # <<>>
        => \/ Has(l.req.body, "system") /\ l.req.body.system = JText(l.systemPrompt)
           \/ /\ Len(l.req.body.messages.v) > 1
              /\ l.req.body.messages.v[1] = SystemMessage(l.systemPrompt)

\* What holds of an invocation with locals l, by the stage it is in.
C8_StageOrder(l) ==
    /\ l.pc \in {"incr_get", "incr_reset", "incr_set", "get_settings",
                 "get_profile", "fetch", "relay"}
          => l.keyData # NULL /\ ~C8_Expired(l.keyData)
    /\ (l.pc \in {"get_settings", "get_profile", "fetch", "relay"}
            /\ l.hasNewUserMessage)
          => /\ l.usageResult.allowed
             /\ l.usageResult.currentUsage >= 1
             /\ l.usageResult.currentUsage <= l.usageResult.limit
    /\ l.pc \in {"fetch", "relay"}
          => /\ l.apiKey # ""
             /\ l.req.body.model = l.modelActual
             /\ C8_Injected(l)
             /\ l.fetches = 1
    /\ l.pc \notin {"fetch", "relay", "done"} => l.fetches = 0
    /\ (l.pc = "done" /\ C8_StageRejection(l.res)) => l.fetches = 0
    /\ (l.pc = "done" /\ l.res.statusCode \in {401, 403, 405}) => l.usageResult = NULL

\* C8: the upstream is called only by an invocation that holds a key record
\* that is not expired, that was admitted by the quota stage when its
\* request is counted, that has a credential, whose request named the public
\* model and now names the upstream one, and whose body carries the
\* configured prompt.  An invocation answered by one of the stages (401, 403,
\* 405, 429 'Daily limit reached', 400 'Invalid model', 500 'API Key not
\* configured') has made no upstream call.
C8_Step(r) ==
    Moves(r)
        => /\ C8_StageOrder(handler'[r])
           /\ (handler'[r].pc = "fetch")
                => /\ handler[r].pc \in {"get_settings", "get_profile"}
                   /\ handler[r].req.body.model = handler'[r].modelDisplay

C8_GatesBeforeUpstream == [][\A r \in Reqs : C8_Step(r)]_vars

\* A counted request for a key with a stale date and a selected profile is
\* about to be forwarded with the profile's credential and the prompt.
C8_Witness ==
    \E r \in Reqs :
        /\ handler[r].pc = "fetch"
        /\ handler[r].hasNewUserMessage
        /\ handler[r].redisSets = 2
        /\ handler[r].redisGets = 4
        /\ handler[r].apiKey = "sk-p1"
        /\ handler[r].systemPrompt = PROMPT
        /\ handler[r].req.body.model = PROFILE_MODEL

---------------------------------------------------------------------------
(* C9 *)

\* A POST whose Authorization header is absent or does not start with
\* "Bearer ".
C9_BadHeader(req) ==
    /\ req.method = "POST"
    /\ ~ ( /\ Len(req.headers.authorization) > 0
           /\ req.headers.authorization[1] = "Bearer " )

\* A POST whose bearer token names no access key record: nothing is stored
\* under it, or it is the name of the settings record or of the profile
\* table.
C9_NoKeyRecord(req) ==
    /\ req.method = "POST"
    /\ ~C9_BadHeader(req)
    /\ LET token == IF Len(req.headers.authorization) > 1
                    THEN req.headers.authorization[2] ELSE ""
       IN  token \notin DOMAIN redis \/ token \in {SETTINGS_KEY, API_PROFILES_KEY}

\* C9: a POST without a Bearer Authorization header is answered 401 without
\* a read or a write of the store; a POST whose token has no key record is
\* answered 401; in both cases nothing is counted and no record is created
\* or changed.
C9_Step(r) ==
    Moves(r)
        => /\ C9_BadHeader(handler'[r].req)
                => /\ handler'[r].pc = "done"
                   /\ handler'[r].res.statusCode = 401
                   /\ handler'[r].redisGets = 0
                   /\ handler'[r].redisSets = 0
                   /\ redis' = redis
           /\ C9_NoKeyRecord(handler'[r].req)
                => /\ handler'[r].pc \in {"auth_get", "done"}
                   /\ handler'[r].pc = "done" => handler'[r].res.statusCode = 401
                   /\ handler'[r].usageResult = NULL
                   /\ redis' = redis

C9_Unauthenticated == [][\A r \in Reqs : C9_Step(r)]_vars


---------------------------------------------------------------------------
(* C10 *)

\* The calendar date of instant t on the clock of a process in time zone
\* `zone`.
LocalDate(t, zone) == (t + zone) \div TicksPerDay

\* getKeyData of the authentication stage returns to the handler in this
\* step of invocation r.
C10_AuthReturns(r) ==
    \/ handler[r].pc = "auth_get" /\ handler'[r].pc \notin {"auth_get", "auth_set"}
    \/ handler[r].pc = "auth_set" /\ Moves(r)

\* C10: a request is rejected as expired (403) when the current date is
\* later than the key's expiry date, and is accepted on the expiry date
\* itself and before, at any time of day; the current date is read here both
\* ways, on the UTC calendar and on the local one, and the request is judged
\* only where the two agree.  A request rejected as expired never increments
\* the count.
C10_ExpiryStep(r) ==
    C10_AuthReturns(r)
        => /\ (Today(now) > Stored.expiry /\ LocalDate(now, tz) > Stored.expiry)
                => handler'[r].res.statusCode = 403
           /\ (Today(now) <= Stored.expiry /\ LocalDate(now, tz) <= Stored.expiry)
                => handler'[r].res.statusCode # 403
           /\ handler'[r].res.statusCode = 403
                => /\ handler'[r].pc = "done"
                   /\ handler'[r].usageResult = NULL
                   /\ redis'["k1"].usage_today.count <= Stored.usage_today.count

C10_CalendarExpiry == [][\A r \in Reqs : C10_ExpiryStep(r)]_vars

---------------------------------------------------------------------------
(* C11 *)

\* The stored record is of the current schema.
C11_Current(raw) == "daily_limit" \in DOMAIN raw /\ "usage_today" \in DOMAIN raw

\* The daily limit C11 gives a migrated record.
C11_Limit(raw) ==
    CASE "max_concurrent_users" \in DOMAIN raw -> 50 * raw.max_concurrent_users
      [] "max_activations" \in DOMAIN raw -> 50 * raw.max_activations
      [] "max_ips" \in DOMAIN raw -> 50 * raw.max_ips
      [] OTHER -> 100

\* The record C11 migrates `raw` to on day `today`.
C11_Migrated(raw, today) ==
    [ f \in {"daily_limit", "usage_today", "session_timeout_minutes"}
              \cup (DOMAIN raw \cap {"expiry"}) |->
        CASE f = "daily_limit" -> C11_Limit(raw)
          [] f = "usage_today" -> [date |-> today, count |-> 0]
          [] f = "session_timeout_minutes" -> 15
          [] OTHER -> raw.expiry ]

\* C11: a read that finds a record of a previous schema builds the migrated
\* record (the old expiry, daily_limit 50 x the first legacy count field in
\* the order max_concurrent_users, max_activations, max_ips, else 100,
\* usage_today {today, 0}, session_timeout_minutes 15); the invocation's
\* next step persists it and the request goes on with exactly that record;
\* a read of the migrated record on the same day returns it as it is and
\* writes nothing.  (When the read or the write fails the request ends with
\* 401 and the store is as it was.)
C11_MigrateStep(r) ==
    /\ (handler[r].pc = "auth_get" /\ Moves(r) /\ ~C11_Current(Stored))
          => \/ /\ handler'[r].pc = "auth_set"
                /\ handler'[r].data = C11_Migrated(Stored, Today(now))
                /\ redis' = redis
             \/ /\ handler'[r].pc = "done"
                /\ handler'[r].res.statusCode = 401
                /\ redis' = redis
    /\ (handler[r].pc = "auth_set" /\ Moves(r))
          => \/ /\ redis' = [redis EXCEPT !["k1"] = handler[r].data]
                /\ handler'[r].pc \in {"incr_get", "get_settings"}
                      => handler'[r].keyData = handler[r].data
                /\ handler'[r].pc = "done" => handler'[r].res.statusCode = 403
                /\ getKeyData(redis'["k1"], Today(now))
                      = [data |-> redis'["k1"], set |-> FALSE]
             \/ /\ handler'[r].pc = "done"
                /\ handler'[r].res.statusCode = 401
                /\ redis' = redis
    /\ (handler[r].pc = "incr_get" /\ Moves(r))
          => /\ C11_Current(Stored)
             /\ handler'[r].pc \in {"incr_set", "done"}
             /\ redis' = redis

C11_LegacyMigration == [][\A r \in Reqs : C11_MigrateStep(r)]_vars

\* A legacy record was migrated to a daily limit of 100 and persisted, and
\* the request, admitted as the first of the day, wrote count 1.
C11_Witness ==
    \E r \in Reqs :
        /\ Counted(r)
        /\ handler[r].pc = "get_settings"
        /\ handler[r].keyData =
              [ expiry |-> LastDay, daily_limit |-> 100,
                usage_today |-> [date |-> Today(now), count |-> 0],
                session_timeout_minutes |-> 15 ]
        /\ Stored = [handler[r].keyData EXCEPT !.usage_today.count = 1]
        /\ handler[r].redisSets = 2


---------------------------------------------------------------------------
(* C12 *)

\* The stored settings record, null when there is none.
StoredSettings == RedisGet(SETTINGS_KEY)

\* The configured public model name: model_display of the settings, the
\* built-in name when the settings have none.
C12_Display ==
    IF StoredSettings # NULL /\ "model_display" \in DOMAIN StoredSettings
       /\ StoredSettings.model_display # ""
    THEN StoredSettings.model_display
    ELSE DEFAULT_MODEL_DISPLAY

\* In this step invocation r leaves the route stage: it is answered or goes
\* on to the upstream call.
RouteResolved(r) ==
    /\ handler[r].pc \in {"get_settings", "get_profile"}
    /\ handler'[r].pc \in {"fetch", "done"}

C12_BadModel(res) ==
    /\ res.statusCode = 400
    /\ res.body.error = "Invalid model"
    /\ res.body.type = "invalid_request_error"

\* C12: a request that reaches the model gate (it has a credential) with a
\* model other than the configured model_display is answered 400 with type
\* invalid_request_error; one whose model is model_display is not; and only
\* a request whose model is model_display is ever forwarded.
C12_GateStep(r) ==
    /\ RouteResolved(r)
          => /\ handler[r].req.body.model # C12_Display
                => /\ handler'[r].pc = "done"
                   /\ handler'[r].fetches = 0
                   /\ \/ C12_BadModel(handler'[r].res)
                      \/ /\ handler'[r].res.statusCode = 500
                         /\ handler'[r].res.body.error = "API Key not configured"
             /\ handler[r].req.body.model = C12_Display
                => /\ handler'[r].res.statusCode # 400
                   /\ handler'[r].pc = "done"
                        => handler'[r].res.body.error = "API Key not configured"
    /\ (Moves(r) /\ handler'[r].pc = "fetch")
          => handler[r].req.body.model = C12_Display
    /\ (Moves(r) /\ handler'[r].res.statusCode = 400)
          => C12_BadModel(handler'[r].res) /\ handler'[r].fetches = 0

C12_ModelGate == [][\A r \in Reqs : C12_GateStep(r)]_vars

\* A request naming the public model in other letter case was answered 400
\* although a credential is configured, and nothing was forwarded.
C12_Witness ==
    \E r \in Reqs :
        /\ handler[r].pc = "done"
        /\ C12_BadModel(handler[r].res)
        /\ handler[r].req.body.model = "public-model"
        /\ C12_Display = MODEL_DISPLAY
        /\ StoredSettings.api_key = "sk-global"
        /\ handler[r].fetches = 0


---------------------------------------------------------------------------
(* C13 *)

\* The stored record of the profile key k1 selects, null when the key
\* selects none or the table has no such profile.
SelectedProfile ==
    LET profiles == RedisGet(API_PROFILES_KEY) IN
    IF "selected_api_profile_id" \in DOMAIN Stored /\ profiles # NULL
       /\ Stored.selected_api_profile_id \in DOMAIN profiles
    THEN profiles[Stored.selected_api_profile_id]
    ELSE NULL

\* The selected profile exists and is active.
ProfileActive == SelectedProfile # NULL /\ SelectedProfile.is_active

\* The actual model id C13 resolves: of the selected profile when it is
\* active and defines one, else of the settings (the built-in id when the
\* settings define none).
C13_Actual ==
    IF ProfileActive /\ "model_actual" \in DOMAIN SelectedProfile
       /\ SelectedProfile.model_actual # ""
    THEN SelectedProfile.model_actual
    ELSE IF StoredSettings # NULL /\ "model_actual" \in DOMAIN StoredSettings
            /\ StoredSettings.model_actual # ""
    THEN StoredSettings.model_actual
    ELSE DEFAULT_MODEL_ACTUAL

\* C13 as stated: the payload of every request that passes the model gate
\* names the resolved actual model id, and never the display name the client
\* supplied.
C13_OriginalStep(r) ==
    (Moves(r) /\ handler'[r].pc = "fetch")
        => /\ handler'[r].req.body.model = C13_Actual
           /\ handler'[r].req.body.model # handler[r].req.body.model

C13_Original == [][\A r \in Reqs : C13_OriginalStep(r)]_vars

\* C13 amended: the payload of every request that passes the model gate
\* names the resolved actual model id, which is the display name the client
\* supplied only when the resolved id is configured equal to model_display;
\* the payload does not change between the gate and the fetch.
C13_AmendedStep(r) ==
    /\ (Moves(r) /\ handler'[r].pc = "fetch")
          => /\ handler'[r].req.body.model = C13_Actual
             /\ handler'[r].req.body.model = handler[r].req.body.model
                   => C13_Actual = C12_Display
    /\ (handler[r].pc = "fetch" /\ Moves(r))
          => /\ handler[r].req.body.model = C13_Actual
             /\ handler'[r].req.body = handler[r].req.body

C13_ModelRewrite == [][\A r \in Reqs : C13_AmendedStep(r)]_vars

\* A request for a key with an active profile that defines model_actual is
\* about to be forwarded under the profile's model, the settings naming
\* another one.
C13_Witness ==
    \E r \in Reqs :
        /\ handler[r].pc = "fetch"
        /\ ProfileActive
        /\ handler[r].req.body.model = PROFILE_MODEL
        /\ StoredSettings # NULL
        /\ "model_actual" \in DOMAIN StoredSettings
        /\ StoredSettings.model_actual = MODEL_ACTUAL


---------------------------------------------------------------------------
(* C14 *)

\* Base URL and credential of the global route: of the settings, else the
\* built-in base and the key of the environment.
GlobalBase ==
    IF StoredSettings # NULL /\ "api_url" \in DOMAIN StoredSettings
       /\ StoredSettings.api_url # <<>>
    THEN StoredSettings.api_url ELSE DEFAULT_API_BASE

GlobalKey ==
    IF StoredSettings # NULL /\ "api_key" \in DOMAIN StoredSettings
       /\ StoredSettings.api_key # ""
    THEN StoredSettings.api_key ELSE env.API_KEY_GOC

\* Base URL and credential of the route C14 resolves.
RouteBase == IF ProfileActive THEN SelectedProfile.api_url ELSE GlobalBase
RouteKey == IF ProfileActive THEN SelectedProfile.api_key ELSE GlobalKey

NoCredential(res) ==
    res.statusCode = 500 /\ res.body.error = "API Key not configured"

\* C14: a request is forwarded with the api_url and api_key of the key's
\* selected profile when that profile exists and is active, else with those
\* of the global settings; with a selected profile that is not in the table
\* or is inactive the request fares as with no profile selected: it is
\* forwarded on the global route whenever the global credential and the
\* model allow, and is rejected only for a missing global credential or a
\* wrong model.
C14_RouteStep(r) ==
    /\ (Moves(r) /\ handler'[r].pc = "fetch")
          => /\ handler'[r].apiBase = RouteBase
             /\ handler'[r].apiKey = RouteKey
    /\ (handler[r].pc = "fetch" /\ Moves(r))
          => /\ handler[r].apiBase = RouteBase
             /\ handler[r].apiKey = RouteKey
    /\ (RouteResolved(r) /\ ~ProfileActive)
          => /\ (GlobalKey # "" /\ handler[r].req.body.model = C12_Display)
                   => handler'[r].pc = "fetch"
             /\ handler'[r].pc = "done"
                   => \/ NoCredential(handler'[r].res) /\ GlobalKey = ""
                      \/ /\ C12_BadModel(handler'[r].res)
                         /\ handler[r].req.body.model # C12_Display

C14_RouteResolution == [][\A r \in Reqs : C14_RouteStep(r)]_vars

\* A request for a key whose selected profile is inactive is about to be
\* forwarded with the URL and the key of the global settings.
C14_Witness ==
    \E r \in Reqs :
        /\ handler[r].pc = "fetch"
        /\ SelectedProfile # NULL
        /\ ~SelectedProfile.is_active
        /\ handler[r].apiKey = "sk-global"
        /\ handler[r].apiBase = StoredSettings.api_url
        /\ handler[r].apiBase # SelectedProfile.api_url

---------------------------------------------------------------------------
(* C15 *)

\* C15 as stated: a request leaves the route stage with 500 'API Key not
\* configured' exactly when neither the global settings or environment nor
\* an active selected profile supplies a non-empty key.
C15_OriginalStep(r) ==
    RouteResolved(r)
        => (NoCredential(handler'[r].res)
              <=> /\ GlobalKey = ""
                  /\ ~(ProfileActive /\ SelectedProfile.api_key # ""))

C15_Original == [][\A r \in Reqs : C15_OriginalStep(r)]_vars

\* C15 amended: a request leaves the route stage with 500 'API Key not
\* configured' exactly when the credential of the resolved route is empty:
\* the api_key of the selected profile when that profile is active, else
\* the global one (settings, else environment).  The key of an active
\* profile replaces the global one even when it is empty.  No other step
\* gives that answer.
C15_AmendedStep(r) ==
    /\ RouteResolved(r) => (NoCredential(handler'[r].res) <=> RouteKey = "")
    /\ (Moves(r) /\ NoCredential(handler'[r].res))
          => RouteResolved(r) /\ handler'[r].fetches = 0

C15_NoCredential == [][\A r \in Reqs : C15_AmendedStep(r)]_vars

\* A request was answered 500 'API Key not configured' for the empty key of
\* its active profile, the settings holding a key.
C15_Witness ==
    \E r \in Reqs :
        /\ handler[r].pc = "done"
        /\ NoCredential(handler[r].res)
        /\ ProfileActive
        /\ SelectedProfile.api_key = ""
        /\ GlobalKey = "sk-global"


---------------------------------------------------------------------------
(* C16 *)

\* The base without its trailing slash.
C16_Stripped(base) ==
    IF Len(base) > 0 /\ base[Len(base)] = "/"
    THEN SubSeq(base, 1, Len(base) - 1) ELSE base

\* The path starts with the segment "/v1": the three characters, and then
\* the end of the path, the next segment or the query string.
C16_LeadingV1(path) ==
    /\ Len(path) >= 3
    /\ SubSeq(path, 1, 3) = V1
    /\ Len(path) > 3 => path[4] \in {"/", "?"}

\* The URL C16 describes.
C16_Url(base, path) ==
    LET stripped == C16_Stripped(base)
        versioned == /\ Len(stripped) >= 3
                     /\ SubSeq(stripped, Len(stripped) - 2, Len(stripped)) = V1
    IN  IF versioned /\ C16_LeadingV1(path)
        THEN stripped \o SubSeq(path, 4, Len(path))
        ELSE stripped \o path

\* C16: the URL a request is forwarded to is the base without its trailing
\* slash followed by the client path, query string included, less the
\* path's leading segment "/v1" when the stripped base ends with that
\* segment; a path that does not start with the segment "/v1" is appended
\* unmodified.
C16_UrlConstruction ==
    \A r \in Reqs :
        handler[r].pc = "fetch"
            => handler[r].apiUrl = C16_Url(handler[r].apiBase, handler[r].req.url)


---------------------------------------------------------------------------
(* C17 *)

RECURSIVE Concat(_)
Concat(texts) ==
    IF texts = <<>> THEN <<>> ELSE Head(texts) \o Concat(Tail(texts))

\* What the client of invocation r has been sent of the upstream body: the
\* chunks written so far, or the buffered body of the 200 response.
C17_Sent(r) ==
    LET l == handler[r]
    IN  IF l.req = NULL THEN <<>>
        ELSE IF l.req.body.stream THEN Concat(l.written)
        ELSE IF l.pc = "done" /\ l.res.statusCode = 200 THEN l.res.body
        ELSE <<>>

\* C17: what a client has been sent of an upstream response, streamed or
\* buffered, never contains the actual model id.
C17_NoActualId ==
    \A r \in Reqs : ~Includes(C17_Sent(r), Spell(C13_Actual))


---------------------------------------------------------------------------
(* C18 *)

\* Invocation r streams and its client is connected.
C18_Streaming(l) == l.req # NULL /\ l.req.body.stream /\ ~l.clientClosed

\* The chunk as it is written: after the substitutions of the model policy.
C18_Relayed(chunk) == Substitute(chunk, C13_Actual, C12_Display)

\* C18: while the client of a streaming invocation is connected, after
\* every step each chunk read from the upstream has been written exactly
\* once, in the order read; the response is ended at most once, exactly once
\* when the invocation is over; and once the response is ended nothing more
\* is written.
C18_Step(r) ==
    LET l == handler[r]
        l2 == handler'[r]
    IN  /\ C18_Streaming(l2)
              => /\ Len(l2.written) = Len(l2.received)
                 /\ \A i \in 1..Len(l2.received) :
                        l2.written[i] = C18_Relayed(l2.received[i])
                 /\ l2.ended <= 1
                 /\ l2.pc = "done" => l2.ended = 1
        /\ (C18_Streaming(l2) /\ l2.received # l.received)
              => LET chunk == l2.received[Len(l2.received)]
                 IN  /\ l2.received = Append(l.received, chunk)
                     /\ l2.written = Append(l.written, C18_Relayed(chunk))
                     /\ l2.ended = 0
        /\ l.ended > 0 => l2.written = l.written

C18_StreamingRelay == [][\A r \in Reqs : C18_Step(r)]_vars

\* A stream of two chunks was relayed to a connected client, the first
\* carrying the model id and written with the display name instead, and the
\* response was ended once.
C18_Witness ==
    \E r \in Reqs :
        /\ handler[r].pc = "done"
        /\ C18_Streaming(handler[r])
        /\ Len(handler[r].received) = 2
        /\ handler[r].received[1] = STREAM_BODY
        /\ handler[r].written[1] = <<"\"">> \o Spell(MODEL_DISPLAY) \o <<"\"">>
        /\ handler[r].written[2] = handler[r].received[2]
        /\ handler[r].ended = 1

---------------------------------------------------------------------------
(* C19 *)

\* C19: once the close event of the client has reached the listener of a
\* streaming invocation, no further chunk is written.
C19_Step(r) ==
    handler[r].clientDisconnected => handler'[r].written = handler[r].written

C19_NoWriteAfterClose == [][\A r \in Reqs : C19_Step(r)]_vars

---------------------------------------------------------------------------
(* C20 *)

\* C20: an invocation that has been told of the disconnection of its client
\* eventually terminates, whatever the upstream does.
C20_NoOrphan ==
    \A r \in Reqs : handler[r].clientDisconnected ~> handler[r].pc = "done"


---------------------------------------------------------------------------
(* C21 *)

\* The 120 s timer fired while the fetch of invocation l was pending, and
\* aborted it.
C21_Aborted(l) == l.fetched # NULL /\ l.fetched.kind = "abort"

C21_Timeout(res) ==
    /\ res.statusCode = 504
    /\ res.body = [error |-> "Request timeout - upstream took too long"]

\* C21: an invocation whose upstream call was aborted by the timer is over,
\* answered 504 and once only, with nothing of an upstream body written;
\* and 504 is the answer to nothing else.  The invocation stays so.
C21_Step(r) ==
    LET l == handler[r]
        l2 == handler'[r]
    IN  /\ C21_Aborted(l2)
              => /\ l2.pc = "done"
                 /\ C21_Timeout(l2.res)
                 /\ l2.written = <<>> /\ l2.received = <<>>
                 /\ l2.ended = 1
        /\ l2.res.statusCode = 504 => C21_Aborted(l2)
        /\ (C21_Aborted(l2) /\ ~C21_Aborted(l)) => l.pc = "fetch"
        /\ C21_Aborted(l) => l2 = l

C21_TimeoutAborts == [][\A r \in Reqs : C21_Step(r)]_vars

\* The timer aborted the upstream call of a streaming request, which was
\* answered 504.
C21_Witness ==
    \E r \in Reqs :
        /\ C21_Aborted(handler[r])
        /\ handler[r].req.body.stream
        /\ C21_Timeout(handler[r].res)


---------------------------------------------------------------------------
(* C22 *)

\* The upstream answered the fetch of invocation l with a non-success
\* status.
C22_UpstreamError(l) ==
    /\ l.fetched # NULL
    /\ l.fetched.kind = "response"
    /\ ~(l.fetched.status >= 200 /\ l.fetched.status <= 299)

\* The fetch of invocation l failed before any response, the timer apart.
C22_Unreachable(l) == l.fetched # NULL /\ l.fetched.kind = "network"

\* An upstream status S is surfaced as S, with the upstream's error text.
C22_Surfaced ==
    \A r \in Reqs :
        C22_UpstreamError(handler[r])
            => /\ handler[r].pc = "done"
               /\ handler[r].res.statusCode = handler[r].fetched.status
               /\ handler[r].res.body.details = ErrorText(handler[r].fetched.status)

\* C22: a network failure of the upstream call before any response is
\* answered with a status that is neither the catch-all 500 nor a status an
\* upstream reports, and an upstream response of a non-success status S is
\* answered with S and the upstream's error text.
C22_DistinctFailures ==
    /\ C22_Surfaced
    /\ \A r \in Reqs :
           C22_Unreachable(handler[r])
               => /\ handler[r].pc = "done"
                  /\ handler[r].res.statusCode # 500
                  /\ handler[r].res.statusCode \notin UpstreamStatuses


---------------------------------------------------------------------------
(* C23 *)

C23_StreamFailed(res) ==
    res.statusCode = 502 /\ res.body.error = "Upstream stream failed"

\* C23: when a read of the upstream stream fails after a chunk has been
\* written, the response is ended, once, with its status still the 200 of
\* the stream, no error body and nothing more written; when it fails before
\* the first chunk the answer is 502 'Upstream stream failed', which is the
\* answer to nothing else.
C23_Step(r) ==
    LET l == handler[r]
        l2 == handler'[r]
    IN  /\ (l2.readError /\ l2.written # <<>>)
              => /\ l2.pc = "done"
                 /\ l2.res = [statusCode |-> 200, body |-> NULL]
                 /\ l2.written = l.written
                 /\ l2.ended = 1
        /\ (l2.readError /\ l2.written = <<>>)
              => /\ l2.pc = "done"
                 /\ C23_StreamFailed(l2.res)
                 /\ l2.ended = 1
        /\ (l2.pc = "done" /\ C23_StreamFailed(l2.res))
              => l2.readError /\ l2.written = <<>>
        /\ (l2.readError /\ ~l.readError) => l.pc = "read"

C23_MidStreamError == [][\A r \in Reqs : C23_Step(r)]_vars

\* A read failed after one chunk had been written: the response was ended
\* with status 200 and the one chunk.
C23_Witness ==
    \E r \in Reqs :
        /\ handler[r].pc = "done"
        /\ handler[r].readError
        /\ Len(handler[r].written) = 1
        /\ handler[r].res.statusCode = 200
        /\ handler[r].ended = 1


---------------------------------------------------------------------------
(* C24 *)

\* The awaited operations of the handler, in the order of its text.
C24_Rank(pc) ==
    CASE pc = "idle" -> 0
      [] pc = "auth_get" -> 1
      [] pc = "auth_set" -> 2
      [] pc = "incr_get" -> 3
      [] pc = "incr_reset" -> 4
      [] pc = "incr_set" -> 5
      [] pc = "get_settings" -> 6
      [] pc = "get_profile" -> 7
      [] pc = "fetch" -> 8
      [] pc = "relay" -> 9
      [] pc = "read" -> 9
      [] pc = "cancel" -> 10
      [] pc = "done" -> 11

\* The invocation without what the client's going away changes.
C24_Own(l) == [l EXCEPT !.clientClosed = FALSE, !.clientDisconnected = FALSE]

\* C24: an invocation never goes back to an operation it has left nor
\* repeats one, the next read of a stream apart: the upstream call is issued
\* at most once, and only by the step that awaits it; the incremented count
\* is written at most once, adding one; and an invocation that is over has
\* ended its response once (not at all when it cancelled the stream of a
\* client that had gone) and does nothing more.
C24_Step(r) ==
    LET l == handler[r]
        l2 == handler'[r]
    IN  /\ C24_Own(l2) # C24_Own(l)
              => \/ C24_Rank(l2.pc) > C24_Rank(l.pc)
                 \/ l.pc = "read" /\ l2.pc = "read"
        /\ l2.fetches <= 1
        /\ l2.fetches = l.fetches + (IF l2.pc = "fetch" /\ l.pc # "fetch" THEN 1 ELSE 0)
        /\ (l.pc = "incr_set" /\ redis' # redis)
              => /\ l2.pc = "get_settings"
                 /\ redis'["k1"].usage_today.count = redis["k1"].usage_today.count + 1
        /\ l2.pc = "done"
              => l2.ended = (IF l2.cancelled /\ ~l2.readError THEN 0 ELSE 1)
        /\ l.pc = "done" => l2 = l

\* The stored count changes only by the write of an incremented count or
\* by a reset to zero.
C24_CountStep ==
    redis'["k1"].usage_today.count # redis["k1"].usage_today.count
        => \/ \E r \in Reqs : handler[r].pc = "incr_set" /\ Moves(r)
           \/ redis'["k1"].usage_today.count = 0

C24_NoRetry == [][C24_CountStep /\ \A r \in Reqs : C24_Step(r)]_vars

\* The write of the incremented count failed: the request was answered 429
\* after one write, without an upstream call.
C24_Witness ==
    \E r \in Reqs :
        /\ handler[r].pc = "done"
        /\ handler[r].usageResult # NULL
        /\ ~handler[r].usageResult.allowed
        /\ handler[r].usageResult.reason = "server_error"
        /\ handler[r].res.statusCode = 429
        /\ handler[r].fetches = 0
        /\ handler[r].ended = 1
        /\ Stored.usage_today.count = 0


---------------------------------------------------------------------------
(* C25 *)

\* The model configuration of the key's selected model, if the key has one
\* and the settings configure it.
C25_HasConfig ==
    /\ "selected_model" \in DOMAIN Stored
    /\ StoredSettings # NULL
    /\ "models" \in DOMAIN StoredSettings
    /\ Stored.selected_model \in DOMAIN StoredSettings.models

C25_Config == StoredSettings.models[Stored.selected_model]

\* The prompt C25 selects; <<>> when the chosen source has none.
C25_Source ==
    IF C25_HasConfig
    THEN IF "system_prompt" \in DOMAIN C25_Config
         THEN C25_Config.system_prompt ELSE <<>>
    ELSE IF StoredSettings # NULL /\ "system_prompt" \in DOMAIN StoredSettings
    THEN StoredSettings.system_prompt
    ELSE <<>>

C25_IsSpace(c) == c \in {" ", "\t", "\n", "\r"}

\* The text of a prompt between its first and its last character that is
\* not white space, cut to 10,000 characters; <<>> when it has none.
C25_Text(raw) ==
    LET inked == {i \in 1..Len(raw) : ~C25_IsSpace(raw[i])}
    IN  IF inked = {} THEN <<>>
        ELSE LET first == CHOOSE i \in inked : \A j \in 1..(i - 1) : C25_IsSpace(raw[j])
                 last == CHOOSE i \in inked :
                             \A j \in (i + 1)..Len(raw) : C25_IsSpace(raw[j])
                 upto == IF last - first + 1 > 10000 THEN first + 9999 ELSE last
             IN  SubSeq(raw, first, upto)

\* The request of invocation r passes the route stage and is forwarded.
C25_Forwarded(r) == RouteResolved(r) /\ handler'[r].pc = "fetch"

\* The system field and the messages of a body.
C25_SystemOf(body) == IF "system" \in DOMAIN body THEN body.system ELSE NULL

C25_Untouched(r) ==
    /\ C25_SystemOf(handler'[r].req.body) = C25_SystemOf(handler[r].req.body)
    /\ handler'[r].req.body.messages = handler[r].req.body.messages

\* C25: the prompt of a forwarded request is that of the model configuration
\* of the key's selected model when the settings have one, and the global
\* prompt otherwise; an empty prompt of the configuration is not replaced by
\* the global one: nothing is injected.
C25_Step(r) ==
    C25_Forwarded(r)
        => /\ handler'[r].systemPrompt = C25_Text(C25_Source)
           /\ (C25_HasConfig /\ C25_Text(C25_Source) = <<>>) => C25_Untouched(r)

C25_PromptSource == [][\A r \in Reqs : C25_Step(r)]_vars

\* A request for a key whose selected model is configured with an empty
\* prompt is about to be forwarded with nothing injected, the global prompt
\* being "Be brief.".
C25_Witness ==
    \E r \in Reqs :
        /\ handler[r].pc = "fetch"
        /\ C25_HasConfig
        /\ "system_prompt" \in DOMAIN C25_Config
        /\ C25_Config.system_prompt = <<>>
        /\ StoredSettings.system_prompt = PROMPT
        /\ handler[r].systemPrompt = <<>>
        /\ handler[r].req.body.messages = JArr(<<ToolResultTurn>>)
        /\ "system" \notin DOMAIN handler[r].req.body

---------------------------------------------------------------------------
(* C26 *)

\* The body of invocation l carries `text` as its system text.
C26_Carries(body, text) ==
    \/ "system" \in DOMAIN body /\ body.system = JText(text)
    \/ /\ body.messages.t = "array"
       /\ \E i \in 1..Len(body.messages.v) :
              body.messages.v[i] = SystemMessage(text)

\* C26: the prompt of a forwarded request is the selected prompt without
\* its surrounding white space, cut to 10,000 characters; when that is
\* empty the system field and the messages go out as the client sent them;
\* otherwise that text is what is injected.
C26_Step(r) ==
    C25_Forwarded(r)
        => LET text == C25_Text(C25_Source)
           IN  /\ handler'[r].systemPrompt = text
               /\ Len(handler'[r].systemPrompt) <= 10000
               /\ text = <<>> => C25_Untouched(r)
               /\ (text # <<>> /\ ~C26_Carries(handler'[r].req.body, text))
                     => /\ handler[r].req.body.messages.t # "array"
                        /\ C25_Untouched(r)

C26_Sanitizing == [][\A r \in Reqs : C26_Step(r)]_vars

\* A prompt of 10,001 characters after its trim was cut to 10,000 and
\* injected.
C26_Witness ==
    \E r \in Reqs :
        /\ handler[r].pc = "fetch"
        /\ StoredSettings.system_prompt = LONG_PROMPT
        /\ Len(handler[r].systemPrompt) = 10000
        /\ handler[r].systemPrompt[1] = "a"
        /\ C26_Carries(handler[r].req.body, handler[r].systemPrompt)


---------------------------------------------------------------------------
(* C27 *)

C27_IsSystem(msg) == msg.role = "system"

\* The injection C27 describes, of `text` into the client's body `pre`,
\* giving `post`.
C27_Injected(pre, post, path, text) ==
    IF "system" \in DOMAIN pre \/ Includes(path, MESSAGES)
    THEN /\ "system" \in DOMAIN post
         /\ post.system = JText(text)
         /\ post.messages = pre.messages
    ELSE IF pre.messages.t # "array" THEN post.messages = pre.messages
    ELSE LET old == pre.messages.v
             new == post.messages.v
         IN  IF \E i \in 1..Len(old) : C27_IsSystem(old[i])
             THEN /\ Len(new) = Len(old)
                  /\ \A i \in 1..Len(old) :
                         IF C27_IsSystem(old[i])
                         THEN /\ C27_IsSystem(new[i])
                              /\ new[i].content = JText(text)
                         ELSE new[i] = old[i]
             ELSE /\ Len(new) = Len(old) + 1
                  /\ C27_IsSystem(new[1])
                  /\ new[1].content = JText(text)
                  /\ \A i \in 1..Len(old) : new[i + 1] = old[i]

\* C27: a request for which a non-empty prompt is resolved, and which the
\* credential and model gates pass, is forwarded with the prompt injected
\* by its dialect: the system field replaced and the messages untouched
\* when the body has a system field or the path contains "/messages"; else
\* the content of the system entries of the messages replaced, or a system
\* entry prepended when there is none.
C27_Step(r) ==
    (RouteResolved(r) /\ C25_Text(C25_Source) # <<>>)
        => /\ handler'[r].pc = "fetch"
           /\ C27_Injected(handler[r].req.body, handler'[r].req.body,
                           handler[r].req.url, C25_Text(C25_Source))

C27_InjectionByDialect == [][\A r \in Reqs : C27_Step(r)]_vars



---------------------------------------------------------------------------
(* C28 *)

\* The answer of the handler to a request by its method alone: 200 with no
\* body to OPTIONS, 405 to any method other than POST and OPTIONS.
C28_Answer(req) ==
    IF req.method = "OPTIONS"
    THEN [statusCode |-> 200, body |-> NULL]
    ELSE [statusCode |-> 405, body |-> [error |-> "Method not allowed"]]

C28_Untouched(l) ==
    /\ l.redisGets = 0
    /\ l.redisSets = 0
    /\ l.fetches = 0
    /\ l.fetched = NULL
    /\ l.usageResult = NULL

\* C28: a request whose method is OPTIONS is answered 200 with no body, a
\* request whose method is neither POST nor OPTIONS is answered 405; both
\* are answered at once, and for neither is the store read or written or
\* the upstream called.
C28_Step(r) ==
    (Moves(r) /\ handler'[r].req # NULL /\ handler'[r].req.method # "POST")
        => /\ handler[r].pc = "idle"
           /\ handler'[r].pc = "done"
           /\ handler'[r].res = C28_Answer(handler'[r].req)
           /\ C28_Untouched(handler'[r])
           /\ redis' = redis

C28_MethodGate == [][\A r \in Reqs : C28_Step(r)]_vars

C28_Witness ==
    \E r \in Reqs :
        /\ handler[r].pc = "done"
        /\ handler[r].req.method = "GET"
        /\ StartsWithBearer(handler[r].req.headers.authorization)
        /\ handler[r].res.statusCode = 405
        /\ C28_Untouched(handler[r])


---------------------------------------------------------------------------
(* C29 *)

\* The reverse substitution as the specification words it, in one pass over
\* the upstream text: at each place the actual model id is replaced by the
\* display name, "Claude Code" by "Claude Opus", "claude-3-5-haiku" by the
\* display name, "Haiku" and "Sonnet" by "Opus"; what was substituted is
\* not rewritten again.
RECURSIVE C29_Rewrite(_, _, _)
C29_Rewrite(text, actual, display) ==
    LET rest(pattern) == SubSeq(text, Len(pattern) + 1, Len(text))
        then(pattern, replacement) ==
            replacement \o C29_Rewrite(rest(pattern), actual, display)
    IN  IF text = <<>> THEN <<>>
        ELSE IF StartsWith(text, actual) THEN then(actual, display)
        ELSE IF StartsWith(text, CLAUDE_CODE) THEN then(CLAUDE_CODE, CLAUDE_OPUS)
        ELSE IF StartsWith(text, CLAUDE_3_5_HAIKU)
        THEN then(CLAUDE_3_5_HAIKU, display)
        ELSE IF StartsWith(text, HAIKU) THEN then(HAIKU, OPUS)
        ELSE IF StartsWith(text, SONNET) THEN then(SONNET, OPUS)
        ELSE <<Head(text)>> \o C29_Rewrite(Tail(text), actual, display)

\* The invocation has buffered the body of a successful upstream response.
C29_Buffered(l) ==
    /\ l.pc = "done"
    /\ l.buffered # <<>>

\* C29: in non-streaming mode the buffered body of a successful upstream
\* response is answered as one response of status 200 with nothing written
\* as a stream, and its JSON text is the upstream text in which the actual
\* model id and "claude-3-5-haiku" are replaced by model_display, "Claude
\* Code" by "Claude Opus", "Haiku" and "Sonnet" by "Opus", whatever the
\* configured model is.
C29_BufferedRelay ==
    \A r \in Reqs :
        LET l == handler[r] IN
        C29_Buffered(l)
            => /\ l.res.statusCode = 200
               /\ l.written = <<>>
               /\ l.ended = 1
               /\ l.res.body =
                      C29_Rewrite(l.buffered[1], Spell(MODEL_ACTUAL),
                                  Spell(redis[SETTINGS_KEY].model_display))


---------------------------------------------------------------------------
(* C30 *)

\* No invocation is between its start and its answer.
C30_Quiet == \A r \in Reqs : handler[r].pc \in {"idle", "done"}

\* The counted requests admitted so far; the clock of Spec stands still, so
\* all of them were admitted on the current date.
C30_AdmittedToday == {r \in Reqs : Counted(r)}

\* C30: after any interleaving of requests for one key, a reset persisted by
\* the auth-stage read of a stale record included, the stored count of the
\* current date accounts for every counted request admitted on that date:
\* no admitted request's increment is lost or wiped.
C30_NoLostIncrement ==
    (C30_Quiet /\ StoredIsToday)
        => Stored.usage_today.count >= Cardinality(C30_AdmittedToday)


---------------------------------------------------------------------------
(* C31 *)

\* Invocation r is answered 429 by this step.
C31_Answered429(r) ==
    /\ Moves(r)
    /\ handler'[r].pc = "done"
    /\ handler'[r].res.statusCode = 429

\* C31: a request is answered 429 'Daily limit reached' only by the quota
\* read, and only when the record that read finds holds a count >= its
\* daily_limit; a store failure during the quota step does not produce a
\* 429.
C31_Step(r) ==
    C31_Answered429(r)
        => /\ handler[r].pc = "incr_get"
           /\ "k1" \in DOMAIN redis
           /\ Stored.usage_today.count >= Stored.daily_limit

C31_Only429AtLimit == [][\A r \in Reqs : C31_Step(r)]_vars


---------------------------------------------------------------------------
(* C32 *)

\* Invocation r is past the quota stage.
C32_PastQuota(r) ==
    handler[r].pc \in {"get_settings", "get_profile", "fetch", "relay",
                       "read", "cancel"}

\* C32: the quota is consumed at the quota stage and never refunded: no
\* step of an invocation that is past the quota stage, whatever rejects it
\* later, writes the store, and no step of the pipeline lowers the stored
\* count of a record that stays dated today.
C32_Step ==
    /\ \A r \in Reqs : (C32_PastQuota(r) /\ Moves(r)) => redis' = redis
    /\ ("k1" \in DOMAIN redis /\ "k1" \in DOMAIN redis'
            /\ Stored.usage_today.date = Stored'.usage_today.date)
          => Stored'.usage_today.count >= Stored.usage_today.count

C32_NeverRefunded == [][C32_Step]_vars


---------------------------------------------------------------------------
(* C33 *)

\* C33: deletion is final: once deleteKey(k1) has completed and until
\* createKey(k1) is called again, the store holds no record for k1,
\* whatever proxy request or selection call for k1 was in flight when the
\* key was deleted.
C33_DeletionFinal == admin.deleted => "k1" \notin DOMAIN redis


---------------------------------------------------------------------------
(* C34 *)

\* The selection a key record holds: the model and the profile, "" for none.
C34_Selection(kd) ==
    << IF Has(kd, "selected_model") THEN kd.selected_model ELSE "",
       SelectedProfileId(kd) >>

\* C34: selection writes and quota writes on the same key do not lose each
\* other's update: the write of incrementUsage keeps the selection the
\* record holds when it is written, and the write of setKeySelectedModel /
\* setKeySelectedProfile keeps the count the record holds when it is
\* written.
C34_Step ==
    /\ (handler[1].pc = "incr_set" /\ Moves(1))
          => C34_Selection(Stored') = C34_Selection(Stored)
    /\ (admin.pc = "key_set" /\ admin' # admin)
          => Stored'.usage_today = Stored.usage_today

C34_NoLostUpdate == [][C34_Step]_vars


---------------------------------------------------------------------------
(* C35 *)

\* C35: every invocation of the handler that has returned has ended its
\* response exactly once, and none ends it more than once; a status with a
\* JSON body is never sent after bytes were written as a stream.
C35_OneOutcome ==
    \A r \in Reqs :
        LET l == handler[r] IN
        /\ l.ended <= 1
        /\ l.pc = "done" => l.ended = 1
        /\ (l.pc = "done" /\ l.written # <<>>) => l.res.body = NULL


---------------------------------------------------------------------------
(* C36 *)

\* The upstream response has arrived and its body is being relayed.
C36_Relaying(l) == l.pc \in {"read", "cancel", "relay"}

\* C36: the timer guards only the phase up to the arrival of the upstream
\* response: it is cleared on every exit of the fetch, so it is not set
\* while the body is relayed nor after the handler has returned, it fires
\* only while the fetch is in flight, and a 504 goes only to a client that
\* has been written nothing.
C36_TimerCleared ==
    \A r \in Reqs :
        LET l == handler[r] IN
        /\ C36_Relaying(l) => l.timer = "cleared"
        /\ l.timer \in {"armed", "fired"} => l.pc = "fetch"
        /\ (l.pc = "done" /\ l.res.statusCode = 504)
              => /\ l.fetched.kind = "abort"
                 /\ l.received = <<>>
                 /\ l.written = <<>>

\* A chunk has been written and the stream goes on with the timer cleared.
C36_Witness ==
    /\ handler[1].pc = "read"
    /\ handler[1].written # <<>>
    /\ handler[1].timer = "cleared"


---------------------------------------------------------------------------
(* C37 *)

\* What is kept of the existing settings record: its fields, the built-in
\* defaults for a record that does not exist or lacks them.
C37_Kept(old) ==
    LET kept(f, default) ==
            IF old # NULL /\ Has(old, f) THEN old[f] ELSE default
    IN  [ model_display |-> kept("model_display", DEFAULT_MODEL_DISPLAY),
          model_actual |-> kept("model_actual", SAVE_MODEL_ACTUAL),
          system_prompt |-> kept("system_prompt", <<>>),
          models |-> kept("models", [k \in {} |-> NULL]) ]

\* The record the claim describes: api_url and api_key replaced, a model
\* name replaced when one is given and not empty, the prompt replaced when
\* one is given, everything else kept.
C37_Saved(args, old) ==
    LET given(f) == Has(args, f) /\ args[f] # ""
        kept == C37_Kept(old)
    IN  [ api_url |-> args.api_url,
          api_key |-> args.api_key,
          model_display |-> IF given("model_display") THEN args.model_display
                            ELSE kept.model_display,
          model_actual |-> IF given("model_actual") THEN args.model_actual
                           ELSE kept.model_actual,
          system_prompt |-> IF Has(args, "system_prompt")
                            THEN args.system_prompt ELSE kept.system_prompt,
          models |-> kept.models ]

\* C37: saveSettings replaces api_url and api_key and keeps what it is not
\* given (the models table, a model name that is omitted or empty, a prompt
\* that is omitted; an empty prompt clears it); when a command of the store
\* fails it reports the failure and the settings record is unchanged.
C37_Step ==
    (admin.pc = "settings_set" /\ admin' # admin)
        => \/ /\ admin'.result.value = 500
              /\ redis' = redis
           \/ /\ admin.read = "ok"
              /\ admin'.result.value = 200
              /\ redis' = RedisSet(SETTINGS_KEY,
                                   C37_Saved(admin.arg, RedisGet(SETTINGS_KEY)))

C37_SaveKeeps == [][C37_Step]_vars


---------------------------------------------------------------------------
(* C38 *)

C38_TokenAccepted(req) ==
    /\ StartsWithBearer(req.headers.authorization)
    /\ verifyToken(UserToken(req.headers.authorization))

C38_BodyValid(req) ==
    /\ req.body # NULL
    /\ NonEmptyString(req.body, "api_key", "")
    /\ NonEmptyString(req.body, "api_url", <<>>)
    /\ UrlParses(req.body.api_url.v)

\* The request is one the handler may save settings for.
C38_Accepted(req) ==
    /\ req.method = "POST"
    /\ C38_TokenAccepted(req)
    /\ C38_BodyValid(req)

\* The status of a request that is not accepted: 405 for the method, else
\* 401 for the token, else 400 for the body (500 when there is no body).
C38_Rejection(req) ==
    IF req.method # "POST" THEN {405}
    ELSE IF ~C38_TokenAccepted(req) THEN {401}
    ELSE IF req.body = NULL THEN {500}
    ELSE {400}

\* C38: the settings-save handler writes the settings store only for a POST
\* with a token verifyToken accepts and a body whose api_key is a non-empty
\* string and whose api_url is a non-empty well-formed URL; any other
\* request is answered 405, 401 or 400 at once and the settings record
\* stays as it is.
C38_Step ==
    /\ redis' # redis => (admin.req # NULL /\ C38_Accepted(admin.req))
    /\ (admin' # admin /\ admin'.req # NULL /\ ~C38_Accepted(admin'.req))
          => /\ admin'.pc = "done"
             /\ admin'.result.value \in C38_Rejection(admin'.req)
             /\ redis' = redis

C38_SaveGuarded == [][C38_Step]_vars

\* A POST with an accepted token and an api_url that is not a URL was
\* answered 400.
C38_Witness ==
    /\ admin.pc = "done"
    /\ admin.req # NULL
    /\ admin.req.method = "POST"
    /\ C38_TokenAccepted(admin.req)
    /\ admin.req.body # NULL
    /\ NonEmptyString(admin.req.body, "api_key", "")
    /\ NonEmptyString(admin.req.body, "api_url", <<>>)
    /\ ~UrlParses(admin.req.body.api_url.v)
    /\ admin.result.value = 400


---------------------------------------------------------------------------
(* C39 *)

\* A step of a call of setKeySelectedProfile that has begun.
C39_CallStep ==
    /\ admin.op = "setKeySelectedProfile"
    /\ admin.pc \in {"key_get", "key_reset", "profile_get", "key_set"}
    /\ admin' # admin

C39_Returns(result) ==
    /\ admin'.pc = "done"
    /\ admin'.result = [value |-> result]

\* The profile table holds a profile with the id the call was given.
C39_ProfileExists ==
    /\ admin.arg # NULL
    /\ API_PROFILES_KEY \in DOMAIN redis
    /\ admin.arg.id \in DOMAIN redis[API_PROFILES_KEY]

\* What the call has to do to the selection of the key record: on success
\* the profile it was given (which exists), or none for null; otherwise
\* what the record held.
C39_SelectionStep ==
    IF C39_Returns(TRUE)
    THEN /\ admin.arg # NULL => C39_ProfileExists
         /\ SelectedProfileId(Stored') =
                (IF admin.arg = NULL THEN "" ELSE admin.arg.id)
    ELSE SelectedProfileId(Stored') = SelectedProfileId(Stored)

\* The usage of a stale date is reset by the read of the key, as on every
\* read of a key.
C39_LazyReset ==
    /\ Stored.usage_today.date # Today(now)
    /\ Stored'.usage_today = [date |-> Today(now), count |-> 0]

\* The statement with usage_today unchanged by every step of a call that
\* clears the selection.
C39_OriginalStep ==
    C39_CallStep
        => IF "k1" \notin DOMAIN redis
           THEN C39_Returns(FALSE) /\ redis' = redis
           ELSE /\ "k1" \in DOMAIN redis'
                /\ C39_SelectionStep
                /\ admin.arg = NULL
                      => /\ Stored'.expiry = Stored.expiry
                         /\ Stored'.daily_limit = Stored.daily_limit
                         /\ Stored'.usage_today = Stored.usage_today

C39_Original == [][C39_OriginalStep]_vars

\* C39: setKeySelectedProfile(k, p) stores a non-null p on the key only if
\* a profile with id p exists; when the key or the profile does not exist
\* it returns false and the selection stays as it was; with p = null it
\* removes the selection; expiry and daily_limit stay as they were, and so
\* does usage_today unless its date is stale, in which case the read of the
\* key resets it to today's date with count 0.
C39_AmendedStep ==
    C39_CallStep
        => IF "k1" \notin DOMAIN redis
           THEN C39_Returns(FALSE) /\ redis' = redis
           ELSE /\ "k1" \in DOMAIN redis'
                /\ C39_SelectionStep
                /\ Stored'.expiry = Stored.expiry
                /\ Stored'.daily_limit = Stored.daily_limit
                /\ \/ Stored'.usage_today = Stored.usage_today
                   \/ C39_LazyReset

C39_SelectProfile == [][C39_AmendedStep]_vars

\* The selection of a key whose usage was dated yesterday has been cleared:
\* the record holds no selection and today's date with count 0.
C39_Witness ==
    /\ admin.op = "setKeySelectedProfile"
    /\ admin.arg = NULL
    /\ admin.pc = "done"
    /\ admin.result = [value |-> TRUE]
    /\ "k1" \in DOMAIN redis
    /\ SelectedProfileId(Stored) = ""
    /\ Stored.usage_today = [date |-> Today(now), count |-> 0]

====
